---- MODULE Spec2Model ----
(***************************************************************************)
(* Model of the image binary codec of python-cvpy:                         *)
(*   cvpy.utils.ImageUtils  (row decoder, batch fetch, wide-image codec)   *)
(*   cvpy.base.ImageDataType                                               *)
(* A numpy array is modelled as its dtype, its shape and its raw memory    *)
(* (the row-major bytes of its elements, in the machine's byte order).     *)
(* A bytes object is a sequence of numbers 0..255.                         *)
(***************************************************************************)
EXTENDS Integers, Sequences, FiniteSets, TLC

VARIABLES
    results_object,     \* the CASThreadTunerResults the caller holds: its instance attributes
    property_call,      \* the property assigned last and the value assigned
    property_before,    \* what the eleven properties gave before the assignment
    property_read,      \* what the eleven properties give after the assignment
    assignments,        \* the assignments made to the CASThreadTunerResults so far
    task_before,        \* the task t that is serialized
    task_dict,          \* t.as_dict()
    task_after,         \* from_dict(t.as_dict())
    table_object,       \* the ImageTable the caller holds: its table, its lookup and its column attributes
    table_raised,       \* what the last assignment to the ImageTable raised
    operations,         \* the assignments made to the ImageTable since its construction
    decoders_call,      \* the arguments handed to the duplicated decoders, and the NumPy of the build
    decoders_rows,      \* what the three get_image_array_from_row returned
    decoders_wide,      \* what the two convert_wide_to_numpy returned
    decoders_pc,        \* the decoders that ran last
    auth_call,          \* the file ~/.cvatauth as generate_cvat_token found it
    auth_pc,            \* where generate_cvat_token stands
    attempt,            \* the attempts of the running prompt loop
    success,            \* whether the last prompt of the running loop was accepted
    cvat_url,           \* the URL the user entered last
    auth_response,      \* the response of the last authentication
    prompts,            \* the prompts made so far and what was entered or answered
    token_file,         \* the file ~/.cvatauth
    mask_call,          \* the arguments of the last Image.mask_image call
    mask,               \* the mask ImageTable object the caller holds: its nine column attributes
    mask_lookup,        \* the _column_dtype_lookup of the mask ImageTable object
    mask_columns,       \* the columns of the mask table on the server: name -> Type
    mask_steps,         \* the server calls and the object update mask_image has made so far
    mask_pc,            \* where mask_image stands
    byteorder,          \* sys.byteorder of the running interpreter
    pc,                 \* the call that ran last
    numpy_image_array,  \* the array handed to convert_numpy_to_wide / built by the test helper
    wide_byte_buffer,   \* the wide image buffer the caller holds
    wide_origin,        \* where wide_byte_buffer came from
    output_array,       \* what convert_wide_to_numpy returned
    row_call,           \* the arguments of the last get_image_array_from_row call
    imageArray,         \* what get_image_array_from_row returned
    fetched,            \* the four series and the index of the last get_image_array call
    medicalImageArray,  \* what get_image_array returned
    imdata,             \* the CAS table handed to fetch_geometry_info: its columns and rows
    geometry_call,      \* the arguments of the last fetch_geometry_info call
    fetches,            \* the number of to_frame fetches sent to the server
    geometry_info,      \* what fetch_geometry_info returned
    inputs,             \* per concurrent codec call: the arguments its caller holds
    call_state,         \* per concurrent codec call: idle, called, computed or returned
    frames,             \* per call frame: the local image_array / wide image of the running call
    results,            \* per concurrent codec call: the value handed back to the caller
    columninfo,         \* the columns of the CAS table handed to ImageTable(): name -> Type
    column_names,       \* the nine column names given to ImageTable() (None when not given)
    image_table,        \* the constructed ImageTable: its nine column attributes, or the exception
    decoded,            \* what has_decoded_images() returned
    auth_files,         \* the file at the path the caller names and the file ~/.annotation_auth
    credentials_call,   \* the arguments of the last Credentials() call
    credentials,        \* the constructed Credentials object, or the exception
    project,            \* the CVATProject the caller holds (None before it is constructed)
    cvat_tasks,         \* the number of tasks the CVAT server has created
    posts,              \* per post_images call so far: its image table and how it ended
    resume_call,        \* the arguments of the CVATProject.resume call and what was saved
    resumed,            \* what CVATProject.resume returned and the tables it loaded
    labels_call,        \* the list last assigned to project.labels
    labels_read,        \* what the assignment raised, or what reading project.labels gave
    type_rows,          \* the _type_ column of the table handed to _get_image_type
    image_type,         \* what ImageTable._get_image_type returned
    tuner_call,         \* the arguments of tune_thread_count and the nodes of the server
    tuner_pc,           \* where tune_thread_count stands
    thread_idx,         \* c_thread_idx, w_thread_idx and the iterations done of the cell
    perf_record,        \* the times action_function returned for the current cell
    perf_array,         \* per statistic and cell: the statistic of the cell's times
    tuner_calls,        \* the calls of setup, action and teardown functions so far
    tuner_results       \* what tune_thread_count returned or raised

codec_vars == <<numpy_image_array, wide_byte_buffer, wide_origin,
                output_array, row_call, imageArray, fetched, medicalImageArray>>
geometry_vars == <<imdata, geometry_call, fetches, geometry_info>>

concurrent_vars == <<inputs, call_state, frames, results>>

imagetable_vars == <<columninfo, column_names, image_table, decoded>>

credentials_vars == <<auth_files, credentials_call, credentials>>

project_vars == <<project, cvat_tasks, posts, resume_call, resumed, labels_call, labels_read>>

imagetype_vars == <<type_rows, image_type>>

tuner_vars == <<tuner_call, tuner_pc, thread_idx, perf_record, perf_array, tuner_calls,
                tuner_results>>

mask_vars == <<mask_call, mask, mask_lookup, mask_columns, mask_steps, mask_pc>>

authenticator_vars == <<auth_call, auth_pc, attempt, success, cvat_url, auth_response, prompts, token_file>>

decoders_vars == <<decoders_call, decoders_rows, decoders_wide, decoders_pc>>

assigned_vars == <<table_object, table_raised, operations>>

roundtrip_vars == <<task_before, task_dict, task_after>>

results_vars == <<results_object, property_call, property_before, property_read, assignments>>

\* the variables of the remaining classes
added_vars == <<imagetype_vars, tuner_vars, mask_vars, authenticator_vars, decoders_vars, assigned_vars, roundtrip_vars, results_vars>>

vars == <<byteorder, pc, codec_vars, geometry_vars, concurrent_vars, imagetable_vars,
          credentials_vars, project_vars, added_vars>>

\* the variables the codec calls leave alone
other_than_codec == <<geometry_vars, concurrent_vars, imagetable_vars, credentials_vars,
                       project_vars,
    added_vars>>
\* the variables fetch_geometry_info leaves alone
other_than_geometry == <<codec_vars, concurrent_vars, imagetable_vars, credentials_vars,
                          project_vars,
    added_vars>>
\* the variables the concurrent codec calls leave alone
other_than_concurrent == <<pc, codec_vars, geometry_vars, imagetable_vars, credentials_vars,
                            project_vars,
    added_vars>>
\* the variables the ImageTable calls leave alone
other_than_imagetable == <<byteorder, codec_vars, geometry_vars, concurrent_vars,
                            credentials_vars, project_vars,
    added_vars>>
\* the variables the Credentials calls leave alone
other_than_credentials == <<byteorder, codec_vars, geometry_vars, concurrent_vars,
                             imagetable_vars, project_vars,
    added_vars>>
\* the variables the CVATProject calls leave alone
other_than_project == <<byteorder, pc, codec_vars, geometry_vars, concurrent_vars,
                         imagetable_vars, credentials_vars,
    added_vars>>
\* the variables of the codec, the geometry, the ImageTable, the Credentials and the
\* CVATProject calls
first_vars == <<byteorder, pc, codec_vars, geometry_vars, concurrent_vars,
                imagetable_vars, credentials_vars, project_vars>>
\* the variables _get_image_type leaves alone
other_than_imagetype == <<first_vars, tuner_vars, mask_vars, authenticator_vars, decoders_vars, assigned_vars, roundtrip_vars, results_vars>>
\* the variables tune_thread_count leaves alone
other_than_tuner == <<first_vars, imagetype_vars, mask_vars, authenticator_vars, decoders_vars, assigned_vars, roundtrip_vars, results_vars>>
\* the variables Image.mask_image leaves alone
other_than_mask == <<first_vars, imagetype_vars, tuner_vars, authenticator_vars, decoders_vars, assigned_vars, roundtrip_vars, results_vars>>
\* the variables generate_cvat_token leaves alone
other_than_authenticator == <<first_vars, imagetype_vars, tuner_vars, mask_vars, decoders_vars, assigned_vars, roundtrip_vars, results_vars>>
\* the variables the calls of the duplicated decoders leave alone
other_than_decoders == <<first_vars, imagetype_vars, tuner_vars, mask_vars, authenticator_vars, assigned_vars, roundtrip_vars, results_vars>>
\* the variables the assignments to an ImageTable leave alone
other_than_assigned == <<first_vars, imagetype_vars, tuner_vars, mask_vars, authenticator_vars, decoders_vars, roundtrip_vars, results_vars>>
\* the variables the Task round trip leaves alone
other_than_roundtrip == <<first_vars, imagetype_vars, tuner_vars, mask_vars, authenticator_vars, decoders_vars, assigned_vars, results_vars>>
\* the variables the assignments to a CASThreadTunerResults leave alone
other_than_results == <<first_vars, imagetype_vars, tuner_vars, mask_vars, authenticator_vars, decoders_vars, assigned_vars, roundtrip_vars>>

-----------------------------------------------------------------------------
(* Bounds of the model *)

\* largest number of cells (pixels or voxels) of an array or of a resolution
MaxCells == 3

-----------------------------------------------------------------------------
(* Python values *)

None == [kind |-> "None"]
Raise(exc) == [kind |-> "raise", exc |-> exc]
Bytes(b) == [kind |-> "bytes", val |-> b]
NdArray(dtype, shape, data) ==
    [kind |-> "ndarray", dtype |-> dtype, shape |-> shape, data |-> data]

IsRaise(v) == v.kind = "raise"
IsArray(v) == v.kind = "ndarray"

-----------------------------------------------------------------------------
(* Sequences of bytes and bits *)

Reverse(s) == [i \in 1..Len(s) |-> s[Len(s) + 1 - i]]

\* s[a:b] of Python for 0 <= a, 0 <= b: clipped to the length of s
Slice(s, a, b) ==
    LET hi == IF b < Len(s) THEN b ELSE Len(s)
    IN  IF a >= hi THEN <<>> ELSE SubSeq(s, a + 1, hi)

RECURSIVE Flatten(_)
Flatten(ss) == IF ss = <<>> THEN <<>> ELSE Head(ss) \o Flatten(Tail(ss))

RECURSIVE Product(_)
Product(s) == IF s = <<>> THEN 1 ELSE Head(s) * Product(Tail(s))

Zeros(n) == [i \in 1..n |-> 0]

\* the n base-256 digits of v, least significant first (two's complement for v < 0)
RECURSIVE LEDigits(_, _)
LEDigits(v, n) == IF n = 0 THEN <<>> ELSE <<v % 256>> \o LEDigits(v \div 256, n - 1)

\* Horner evaluation of base-256 digits, most significant first
RECURSIVE Horner(_, _)
Horner(acc, d) == IF d = <<>> THEN acc ELSE Horner(acc * 256 + Head(d), Tail(d))

\* the unsigned number with the given digits, most significant first
UnsignedBE(d) == Horner(0, d)

\* the two's complement number with the given digits, most significant first
SignedBE(d) == Horner(IF d[1] >= 128 THEN d[1] - 256 ELSE d[1], Tail(d))

\* byte string in memory <-> digits most significant first, in the native order
Native(d) == IF byteorder = "little" THEN Reverse(d) ELSE d

-----------------------------------------------------------------------------
(* Bit strings, most significant bit first *)

RECURSIVE BitsOf(_, _)
BitsOf(v, n) == IF n = 0 THEN <<>> ELSE BitsOf(v \div 2, n - 1) \o <<v % 2>>

RECURSIVE ValueOf(_)
ValueOf(bits) ==
    IF bits = <<>> THEN 0 ELSE 2 * ValueOf(SubSeq(bits, 1, Len(bits) - 1)) + bits[Len(bits)]

ToBits(digits) == Flatten([i \in 1..Len(digits) |-> BitsOf(digits[i], 8)])

FromBits(bits) ==
    [i \in 1..(Len(bits) \div 8) |-> ValueOf(SubSeq(bits, 8 * i - 7, 8 * i))]

AllZero(bits) == \A i \in 1..Len(bits) : bits[i] = 0

\* index of the first 1 bit; Len(bits) + 1 when there is none
LeadingOne(bits) ==
    IF AllZero(bits) THEN Len(bits) + 1
    ELSE CHOOSE i \in 1..Len(bits) : bits[i] = 1 /\ AllZero(SubSeq(bits, 1, i - 1))

\* bits + 1 on Len(bits) bits, wrapping to zero
RECURSIVE Increment(_)
Increment(bits) ==
    IF bits = <<>> THEN <<>>
    ELSE IF bits[Len(bits)] = 0 THEN SubSeq(bits, 1, Len(bits) - 1) \o <<1>>
    ELSE Increment(SubSeq(bits, 1, Len(bits) - 1)) \o <<0>>

\* round-to-nearest-even of a bit string to its first n bits (1 <= n <= Len):
\* [bits |-> the n kept bits, carry |-> whether the rounding overflowed them]
RoundTo(bits, n) ==
    LET kept == SubSeq(bits, 1, n)
        rest == SubSeq(bits, n + 1, Len(bits))
        up == /\ rest # <<>>
              /\ rest[1] = 1
              /\ (~AllZero(Tail(rest)) \/ kept[n] = 1)
    IN  IF ~up THEN [bits |-> kept, carry |-> FALSE]
        ELSE [bits |-> Increment(kept), carry |-> \A i \in 1..n : kept[i] = 1]

-----------------------------------------------------------------------------
(* numpy: dtypes, frombuffer, reshape, tobytes *)

itemsize(dtype) ==
    CASE dtype = "uint8" -> 1
      [] dtype = "int8" -> 1
      [] dtype = "int16" -> 2
      [] dtype = "uint16" -> 2
      [] dtype = "int32" -> 4
      [] dtype = "float32" -> 4
      [] dtype = "int64" -> 8
      [] dtype = "uint64" -> 8
      [] dtype = "float64" -> 8

\* np.frombuffer(buf, dtype=dtype): a flat view of the bytes
np_frombuffer(buf, dtype) ==
    IF Len(buf) % itemsize(dtype) # 0
    THEN Raise("ValueError")
    ELSE NdArray(dtype, <<Len(buf) \div itemsize(dtype)>>, buf)

\* a.reshape(shape) / np.reshape(a, shape), for shapes without a -1 entry
np_reshape(a, shape) ==
    IF Product(shape) * itemsize(a.dtype) # Len(a.data)
    THEN Raise("ValueError")
    ELSE NdArray(a.dtype, shape, a.data)

\* np.array(values, dtype=np.int64).tobytes()
int64_tobytes(values) ==
    Flatten([i \in 1..Len(values) |-> Native(Reverse(LEDigits(values[i], 8)))])

\* np.frombuffer(buf, dtype=np.int64)[0]
int64_frombuffer_0(buf) ==
    IF Len(buf) % 8 # 0 THEN Raise("ValueError")
    ELSE IF Len(buf) = 0 THEN Raise("IndexError")
    ELSE [kind |-> "int", val |-> SignedBE(Native(SubSeq(buf, 1, 8)))]

-----------------------------------------------------------------------------
(* struct.unpack with the '=' prefix: native byte order, standard sizes *)

struct_calcsize(code) ==
    CASE code \in {"b", "B"} -> 1
      [] code \in {"h", "H"} -> 2
      [] code \in {"i", "f"} -> 4
      [] code \in {"q", "Q", "d"} -> 8

Ones(n) == [i \in 1..n |-> 1]

\* the Python float (an IEEE double: sign, biased exponent, 52 fraction bits)
\* that the C conversion (double)x gives for the float x with the given 32 bits
FloatToDouble(b) ==
    LET s == b[1]
        e == ValueOf(SubSeq(b, 2, 9))
        f == SubSeq(b, 10, 32)
        k == LeadingOne(f)
    IN  IF e = 255 THEN [py |-> "float", sign |-> s, exp |-> 2047, frac |-> f \o Zeros(29)]
        ELSE IF e = 0 /\ AllZero(f) THEN [py |-> "float", sign |-> s, exp |-> 0, frac |-> Zeros(52)]
        ELSE IF e = 0 THEN     \* subnormal float: 2^(-126-k) * 1.f[k+1..23]
            [py |-> "float", sign |-> s, exp |-> 897 - k,
             frac |-> SubSeq(f, k + 1, 23) \o Zeros(29 + k)]
        ELSE [py |-> "float", sign |-> s, exp |-> e + 896, frac |-> f \o Zeros(29)]

\* one unpacked item: a Python int or float
struct_item(code, chunk) ==
    CASE code \in {"b", "h", "i", "q"} -> [py |-> "int", val |-> SignedBE(Native(chunk))]
      [] code \in {"B", "H"} -> [py |-> "int", val |-> UnsignedBE(Native(chunk))]
      \* an unsigned 64-bit value, kept as its 64 bits
      [] code = "Q" -> [py |-> "int", bits |-> ToBits(Native(chunk))]
      [] code = "f" -> FloatToDouble(ToBits(Native(chunk)))
      [] code = "d" ->
            LET b == ToBits(Native(chunk))
            IN  [py |-> "float", sign |-> b[1], exp |-> ValueOf(SubSeq(b, 2, 12)),
                 frac |-> SubSeq(b, 13, 64)]

\* struct.unpack('=<count><code>', buffer): the buffer must hold exactly count items
struct_unpack(code, count, buffer) ==
    LET size == struct_calcsize(code)
    IN  IF Len(buffer) # count * size THEN Raise("struct.error")
        ELSE [kind |-> "tuple",
              items |-> [k \in 1..count |->
                            struct_item(code, SubSeq(buffer, (k - 1) * size + 1, k * size))]]

-----------------------------------------------------------------------------
(* np.array(<tuple of Python numbers>).astype(dtype) *)

\* the C cast (float)x of a double, round to nearest even: the 32 bits of the result
DoubleToFloat(x) ==
    LET unb == x.exp - 1023
        mant == <<1>> \o x.frac
    IN  IF x.exp = 2047 THEN <<x.sign>> \o Ones(8) \o SubSeq(x.frac, 1, 23)
        ELSE IF x.exp = 0 THEN <<x.sign>> \o Zeros(31)
        ELSE IF unb > 127 THEN <<x.sign>> \o Ones(8) \o Zeros(23)
        ELSE IF unb >= -126 THEN
            LET r == RoundTo(mant, 24)
            IN  IF ~r.carry THEN <<x.sign>> \o BitsOf(unb + 127, 8) \o Tail(r.bits)
                ELSE IF unb + 1 > 127 THEN <<x.sign>> \o Ones(8) \o Zeros(23)
                ELSE <<x.sign>> \o BitsOf(unb + 128, 8) \o Zeros(23)
        ELSE
            LET r == RoundTo(Zeros(-126 - unb - 1) \o mant, 23)
            IN  IF r.carry THEN <<x.sign>> \o BitsOf(1, 8) \o Zeros(23)
                ELSE <<x.sign>> \o Zeros(8) \o r.bits

\* the 64 bits of (npy_uint64)(double)v for the unsigned 64-bit integer v:
\* v is rounded to 53 significant bits; a result of 2^64 is out of range for the cast,
\* which is undefined in C: overflow_cast is the value the build produces there
UInt64ViaDouble(bits, overflow_cast) ==
    LET lead == LeadingOne(bits)
        sig == 65 - lead
    IN  IF sig <= 53 THEN bits
        ELSE LET r == RoundTo(SubSeq(bits, lead, 64), 53)
             IN  IF ~r.carry THEN Zeros(lead - 1) \o r.bits \o Zeros(sig - 53)
                 ELSE IF lead = 1 THEN overflow_cast
                 ELSE Zeros(lead - 2) \o <<1>> \o Zeros(sig)

\* the dtype np.array discovers for a tuple of Python ints unpacked with 'Q':
\* a value below 2^63 is a C long (int64), a larger one is uint64,
\* and int64 promoted with uint64 is float64; an empty tuple gives float64
DiscoveredQ(items) ==
    LET kinds == {IF items[k].bits[1] = 1 THEN "uint64" ELSE "int64" : k \in 1..Len(items)}
    IN  IF kinds = {"int64"} THEN "int64"
        ELSE IF kinds = {"uint64"} THEN "uint64"
        ELSE "float64"

\* the memory of one element after np.array(items).astype(dtype)
astype_item(items, k, dtype, overflow_cast) ==
    CASE dtype \in {"int8", "uint8", "int16", "uint16", "int32"} ->
            Native(Reverse(LEDigits(items[k].val, itemsize(dtype))))
      [] dtype = "uint64" ->
            IF DiscoveredQ(items) = "float64"
            THEN Native(FromBits(UInt64ViaDouble(items[k].bits, overflow_cast)))
            ELSE Native(FromBits(items[k].bits))
      [] dtype = "float32" -> Native(FromBits(DoubleToFloat(items[k])))
      [] dtype = "float64" ->
            Native(FromBits(<<items[k].sign>> \o BitsOf(items[k].exp, 11) \o items[k].frac))

np_array_astype(items, dtype, overflow_cast) ==
    NdArray(dtype, <<Len(items)>>,
            Flatten([k \in 1..Len(items) |-> astype_item(items, k, dtype, overflow_cast)]))

\* np.array(bytearray(b)).astype(np.uint8): one uint8 element per byte
np_array_bytearray(b) == NdArray("uint8", <<Len(b)>>, b)

-----------------------------------------------------------------------------
(* ImageUtils.__reverse *)

\* mutant: the slice ::-1 is applied to the leading axis whatever axis is asked for
reverse_leading_axis(a, axis) ==
    LET size == itemsize(a.dtype)
        n == a.shape[1]
        inner == Product(SubSeq(a.shape, 2, Len(a.shape)))
        from(e) == e + (n - 1 - 2 * ((e \div inner) % n)) * inner
    IN  NdArray(a.dtype, a.shape,
                [i \in 1..Len(a.data) |->
                    a.data[from((i - 1) \div size) * size + ((i - 1) % size) + 1]])

\* a[..., ::-1, ...] along the given axis (0-based)
reverse(a, axis) ==
    LET size == itemsize(a.dtype)
        n == a.shape[axis + 1]
        inner == Product(SubSeq(a.shape, axis + 2, Len(a.shape)))
        \* the element that lands at flat position e (0-based)
        from(e) == e + (n - 1 - 2 * ((e \div inner) % n)) * inner
    IN  NdArray(a.dtype, a.shape,
                [i \in 1..Len(a.data) |->
                    a.data[from((i - 1) \div size) * size + ((i - 1) % size) + 1]])

-----------------------------------------------------------------------------
(* ImageUtils.get_image_array_from_row *)

\* mutant: a branch that unpacks the items the buffer holds when it holds fewer than
\* num_cells, and returns them flat
unpack_branch_available(image_binary, resolution, code, size, dtype, overflow_cast) ==
    LET num_cells == Product(resolution)
        available == Len(image_binary) \div size
    IN  IF resolution = <<>> THEN Raise("TypeError")
        ELSE IF available < num_cells THEN
            np_array_astype(struct_unpack(code, available,
                                          Slice(image_binary, 0, size * available)).items,
                            dtype, overflow_cast)
        ELSE LET t == struct_unpack(code, num_cells, Slice(image_binary, 0, size * num_cells))
             IN  IF IsRaise(t) THEN t
                 ELSE np_reshape(np_array_astype(t.items, dtype, overflow_cast), resolution)

\* one struct.unpack branch of the chain: unpack num_cells items, convert, reshape.
\* np.prod of an empty resolution is the float 1.0, which cannot index a slice.
unpack_branch(image_binary, resolution, code, size, dtype, overflow_cast) ==
    LET num_cells == Product(resolution)
    IN  IF resolution = <<>> THEN Raise("TypeError")
        ELSE LET t == struct_unpack(code, num_cells, Slice(image_binary, 0, size * num_cells))
             IN  IF IsRaise(t) THEN t
                 ELSE np_reshape(np_array_astype(t.items, dtype, overflow_cast), resolution)

\* mutant: the packed branch is taken for every channel count but 1
is_packed_8U_multichannel(myformat, channel_count) == myformat = "8U" /\ channel_count # 1

\* the condition of the packed 3-channel branch: myformat == '8U' and channel_count == 3
is_packed_8U(myformat, channel_count) == myformat = "8U" /\ channel_count = 3

\* mutant: a dimension that differs from the length of resolution is rejected
get_image_array_from_row_checked(image_binary, dimension, resolution, myformat, channel_count, overflow_cast) ==
    LET num_cells == Product(resolution)
    IN  IF dimension # Len(resolution) THEN Raise("ValueError")
        ELSE IF myformat = "32S" THEN
            unpack_branch(image_binary, resolution, "i", 4, "int32", overflow_cast)
        ELSE IF myformat = "32F" THEN
            unpack_branch(image_binary, resolution, "f", 4, "float32", overflow_cast)
        ELSE IF myformat = "64F" THEN
            unpack_branch(image_binary, resolution, "d", 8, "float64", overflow_cast)
        ELSE IF myformat = "64U" THEN
            unpack_branch(image_binary, resolution, "Q", 8, "uint64", overflow_cast)
        ELSE IF myformat = "16S" THEN
            unpack_branch(image_binary, resolution, "h", 2, "int16", overflow_cast)
        ELSE IF myformat = "16U" THEN
            unpack_branch(image_binary, resolution, "H", 2, "uint16", overflow_cast)
        ELSE IF is_packed_8U(myformat, channel_count) THEN
            IF resolution = <<>> THEN Raise("TypeError")
            ELSE IF Len(resolution) < 2 THEN Raise("IndexError")
            ELSE LET image_array ==
                         np_reshape(np_array_bytearray(Slice(image_binary, 0, num_cells * 3)),
                                    <<resolution[1], resolution[2], 3>>)
                 IN  IF IsRaise(image_array) THEN image_array
                     ELSE reverse(image_array, 2)
        ELSE IF myformat = "8S" THEN
            unpack_branch(image_binary, resolution, "b", 1, "int8", overflow_cast)
        ELSE IF myformat = "8U" THEN
            unpack_branch(image_binary, resolution, "B", 1, "uint8", overflow_cast)
        ELSE
            IF Len(resolution) < 2 THEN Raise("IndexError")
            ELSE LET image_array ==
                         np_reshape(np_array_bytearray(image_binary),
                                    <<resolution[1], resolution[2], 3>>)
                 IN  IF IsRaise(image_array) THEN image_array
                     ELSE reverse(image_array, 2)

get_image_array_from_row(image_binary, dimension, resolution, myformat, channel_count, overflow_cast) ==
    LET num_cells == Product(resolution)
    IN  IF myformat = "32S" THEN
            unpack_branch(image_binary, resolution, "i", 4, "int32", overflow_cast)
        ELSE IF myformat = "32F" THEN
            unpack_branch(image_binary, resolution, "f", 4, "float32", overflow_cast)
        ELSE IF myformat = "64F" THEN
            unpack_branch(image_binary, resolution, "d", 8, "float64", overflow_cast)
        ELSE IF myformat = "64U" THEN
            unpack_branch(image_binary, resolution, "Q", 8, "uint64", overflow_cast)
        ELSE IF myformat = "16S" THEN
            unpack_branch(image_binary, resolution, "h", 2, "int16", overflow_cast)
        ELSE IF myformat = "16U" THEN
            unpack_branch(image_binary, resolution, "H", 2, "uint16", overflow_cast)
        ELSE IF is_packed_8U(myformat, channel_count) THEN
            IF resolution = <<>> THEN Raise("TypeError")
            ELSE IF Len(resolution) < 2 THEN Raise("IndexError")
            ELSE LET image_array ==
                         np_reshape(np_array_bytearray(Slice(image_binary, 0, num_cells * 3)),
                                    <<resolution[1], resolution[2], 3>>)
                 IN  IF IsRaise(image_array) THEN image_array
                     ELSE reverse(image_array, 2)
        ELSE IF myformat = "8S" THEN
            unpack_branch(image_binary, resolution, "b", 1, "int8", overflow_cast)
        ELSE IF myformat = "8U" THEN
            unpack_branch(image_binary, resolution, "B", 1, "uint8", overflow_cast)
        ELSE
            IF Len(resolution) < 2 THEN Raise("IndexError")
            ELSE LET image_array ==
                         np_reshape(np_array_bytearray(image_binary),
                                    <<resolution[1], resolution[2], 3>>)
                 IN  IF IsRaise(image_array) THEN image_array
                     ELSE reverse(image_array, 2)

-----------------------------------------------------------------------------
(* ImageUtils.get_image_array *)

\* mutant: the lookup returns the first entry whatever the index
series_first_item(series, n) ==
    IF Len(series) > 0 THEN [kind |-> "item", val |-> series[1]]
    ELSE Raise("KeyError")

\* series[n] of a pandas Series with the default index 0..len-1
series_item(series, n) ==
    IF n >= 0 /\ n < Len(series) THEN [kind |-> "item", val |-> series[n + 1]]
    ELSE Raise("KeyError")

\* mutant: the unpacked values are used in the order they are stored
resolution_as_stored(items) == [k \in 1..Len(items) |-> items[k].val]

\* resolution = np.array(<unpacked>); resolution = resolution[::-1]
reversed_resolution(items) == Reverse([k \in 1..Len(items) |-> items[k].val])

get_image_array(image_binaries, dimensions, resolutions, formats, n, channel_count, overflow_cast) ==
    LET dim_n == series_item(dimensions, n)
        res_n == series_item(resolutions, n)
        fmt_n == series_item(formats, n)
        bin_n == series_item(image_binaries, n)
    IN  IF IsRaise(dim_n) THEN dim_n
        ELSE IF IsRaise(res_n) THEN res_n
        ELSE LET dimension == dim_n.val
                 unpacked == struct_unpack("q", dimension, Slice(res_n.val, 0, dimension * 8))
             IN  IF IsRaise(unpacked) THEN unpacked
                 ELSE IF IsRaise(fmt_n) THEN fmt_n
                 ELSE IF IsRaise(bin_n) THEN bin_n
                 ELSE LET resolution == reversed_resolution(unpacked.items)
                          myformat == fmt_n.val
                      IN  get_image_array_from_row(bin_n.val, dimension, resolution, myformat,
                                                   channel_count, overflow_cast)

-----------------------------------------------------------------------------
(* cvpy.base.ImageDataType *)

CV_8UC1 == 0
CV_8UC3 == 16
CV_32FC1 == 5
CV_32FC3 == 21
CV_64FC1 == 6
CV_64FC3 == 22

-----------------------------------------------------------------------------
(* ImageUtils.convert_numpy_to_wide *)

\* mutant: the codes of the two 3-channel float branches are exchanged
assign_data_type_swapped(num_channels, np_data_type) ==
    IF num_channels = 1 /\ np_data_type = "uint8" THEN <<CV_8UC1>>
    ELSE IF num_channels = 3 /\ np_data_type = "uint8" THEN <<CV_8UC3>>
    ELSE IF num_channels = 1 /\ np_data_type = "float32" THEN <<CV_32FC1>>
    ELSE IF num_channels = 3 /\ np_data_type = "float32" THEN <<CV_64FC3>>
    ELSE IF num_channels = 1 /\ np_data_type = "float64" THEN <<CV_64FC1>>
    ELSE IF num_channels = 3 /\ np_data_type = "float64" THEN <<CV_32FC3>>
    ELSE <<>>

\* mutant: every channel count but 1 is taken for 3
assign_data_type_multichannel(num_channels, np_data_type) ==
    IF num_channels = 1 /\ np_data_type = "uint8" THEN <<CV_8UC1>>
    ELSE IF np_data_type = "uint8" THEN <<CV_8UC3>>
    ELSE IF num_channels = 1 /\ np_data_type = "float32" THEN <<CV_32FC1>>
    ELSE IF np_data_type = "float32" THEN <<CV_32FC3>>
    ELSE IF num_channels = 1 /\ np_data_type = "float64" THEN <<CV_64FC1>>
    ELSE IF np_data_type = "float64" THEN <<CV_64FC3>>
    ELSE <<>>

\* the if/elif chain that assigns data_type: <<code>>, or <<>> when no branch is
\* taken and data_type stays unassigned
assign_data_type(num_channels, np_data_type) ==
    IF num_channels = 1 /\ np_data_type = "uint8" THEN <<CV_8UC1>>
    ELSE IF num_channels = 3 /\ np_data_type = "uint8" THEN <<CV_8UC3>>
    ELSE IF num_channels = 1 /\ np_data_type = "float32" THEN <<CV_32FC1>>
    ELSE IF num_channels = 3 /\ np_data_type = "float32" THEN <<CV_32FC3>>
    ELSE IF num_channels = 1 /\ np_data_type = "float64" THEN <<CV_64FC1>>
    ELSE IF num_channels = 3 /\ np_data_type = "float64" THEN <<CV_64FC3>>
    ELSE <<>>

\* mutant: the prefix names the axes in the order of the array's shape
wide_prefix_shape_order(width, height, data_type) == <<-1, width, height, data_type>>

\* wide_prefix = np.array([-1, height, width, data_type], dtype=np.int64)
wide_prefix(width, height, data_type) == <<-1, height, width, data_type>>

convert_numpy_to_wide(numpy_array) ==
    IF Len(numpy_array.shape) # 3 THEN Raise("ValueError")
    ELSE
    LET width == numpy_array.shape[1]
        height == numpy_array.shape[2]
        num_channels == numpy_array.shape[3]
        np_data_type == numpy_array.dtype
        data_type == assign_data_type(num_channels, np_data_type)
    IN  IF data_type = <<>> THEN Raise("UnboundLocalError")
        ELSE Bytes(int64_tobytes(wide_prefix(width, height, data_type[1]))
                   \o numpy_array.data)

-----------------------------------------------------------------------------
(* ImageUtils.convert_wide_to_numpy *)

\* mutant: the width is read from the slot of the height
read_width_from_height_slot(wide_image) == int64_frombuffer_0(Slice(wide_image, 2 * 8, 3 * 8))

\* width = np.frombuffer(wide_image[8:2 * 8], dtype=np.int64)[0]
read_width(wide_image) == int64_frombuffer_0(Slice(wide_image, 8, 2 * 8))

\* height = np.frombuffer(wide_image[2 * 8:3 * 8], dtype=np.int64)[0]
read_height(wide_image) == int64_frombuffer_0(Slice(wide_image, 2 * 8, 3 * 8))

\* data_type = np.frombuffer(wide_image[3 * 8:4 * 8], dtype=np.int64)[0]
read_data_type(wide_image) == int64_frombuffer_0(Slice(wide_image, 3 * 8, 4 * 8))

\* mutant: the element types of the two 3-channel float codes are exchanged
assign_channels_and_type_swapped(data_type) ==
    IF data_type = CV_8UC1 THEN <<1, "uint8">>
    ELSE IF data_type = CV_8UC3 THEN <<3, "uint8">>
    ELSE IF data_type = CV_32FC1 THEN <<1, "float32">>
    ELSE IF data_type = CV_32FC3 THEN <<3, "float64">>
    ELSE IF data_type = CV_64FC1 THEN <<1, "float64">>
    ELSE IF data_type = CV_64FC3 THEN <<3, "float32">>
    ELSE <<>>

\* mutant: a chain that ends with an else branch for every other code
assign_channels_and_type_default(data_type) ==
    IF data_type = CV_8UC1 THEN <<1, "uint8">>
    ELSE IF data_type = CV_8UC3 THEN <<3, "uint8">>
    ELSE IF data_type = CV_32FC1 THEN <<1, "float32">>
    ELSE IF data_type = CV_32FC3 THEN <<3, "float32">>
    ELSE IF data_type = CV_64FC1 THEN <<1, "float64">>
    ELSE IF data_type = CV_64FC3 THEN <<3, "float64">>
    ELSE <<1, "uint8">>

\* the if/elif chain that assigns num_channels and np_data_type:
\* <<num_channels, np_data_type>>, or <<>> when no branch is taken
assign_channels_and_type(data_type) ==
    IF data_type = CV_8UC1 THEN <<1, "uint8">>
    ELSE IF data_type = CV_8UC3 THEN <<3, "uint8">>
    ELSE IF data_type = CV_32FC1 THEN <<1, "float32">>
    ELSE IF data_type = CV_32FC3 THEN <<3, "float32">>
    ELSE IF data_type = CV_64FC1 THEN <<1, "float64">>
    ELSE IF data_type = CV_64FC3 THEN <<3, "float64">>
    ELSE <<>>

\* mutant: .reshape(width, height, num_channels)
wide_shape_width_first(height, width, num_channels) == <<width, height, num_channels>>

\* the shape of .reshape(height, width, num_channels)
wide_shape(height, width, num_channels) == <<height, width, num_channels>>

convert_wide_to_numpy(wide_image) ==
    LET width == read_width(wide_image)
        height == read_height(wide_image)
        data_type == read_data_type(wide_image)
    IN  IF IsRaise(width) THEN width
        ELSE IF IsRaise(height) THEN height
        ELSE IF IsRaise(data_type) THEN data_type
        ELSE
        LET chosen == assign_channels_and_type(data_type.val)
        IN  IF chosen = <<>> THEN Raise("UnboundLocalError")
            ELSE
            LET num_channels == chosen[1]
                np_data_type == chosen[2]
                flat == np_frombuffer(Slice(wide_image, 4 * 8, Len(wide_image)), np_data_type)
            IN  IF IsRaise(flat) THEN flat
                ELSE np_reshape(flat, wide_shape(height.val, width.val, num_channels))

-----------------------------------------------------------------------------
(* tests/test_image.py: create_numpy_array_and_wide_image *)

\* the bits of the IEEE value of the integer v in 0..255, with the given exponent
\* width, fraction width and bias: (float)v or (double)v
ByteToIEEE(v, ebits, fbits, bias) ==
    LET b == BitsOf(v, 8)
        k == LeadingOne(b)      \* v = 1.b[k+1..8] * 2^(8-k)
    IN  IF v = 0 THEN Zeros(1 + ebits + fbits)
        ELSE <<0>> \o BitsOf(bias + 8 - k, ebits) \o SubSeq(b, k + 1, 8) \o Zeros(fbits - (8 - k))

\* np.array(bytearray(b)).astype(dtype) for the three element types of a wide image
bytearray_astype(b, dtype) ==
    NdArray(dtype, <<Len(b)>>,
            Flatten([i \in 1..Len(b) |->
                CASE dtype = "uint8" -> <<b[i]>>
                  [] dtype = "float32" -> Native(FromBits(ByteToIEEE(b[i], 8, 23, 127)))
                  [] dtype = "float64" -> Native(FromBits(ByteToIEEE(b[i], 11, 52, 1023)))]))

\* the pair (numpy_image_array, wide image) the test builds from a fetched image row
create_numpy_array_and_wide_image(image_binary, width, height, data_type) ==
    LET chosen ==
            IF data_type = CV_8UC1 THEN <<1, "uint8">>
            ELSE IF data_type = CV_8UC3 THEN <<3, "uint8">>
            ELSE IF data_type = CV_32FC1 THEN <<1, "float32">>
            ELSE IF data_type = CV_32FC3 THEN <<3, "float32">>
            ELSE IF data_type = CV_64FC1 THEN <<1, "float64">>
            ELSE <<3, "float64">>
        num_channels == chosen[1]
        np_data_type == chosen[2]
        image_array ==
            bytearray_astype(Slice(image_binary, 0, width * height * num_channels), np_data_type)
        numpy_image_array_ == np_reshape(image_array, <<width, height, num_channels>>)
    IN  IF IsRaise(numpy_image_array_) THEN <<numpy_image_array_, numpy_image_array_>>
        ELSE <<numpy_image_array_,
               Bytes(int64_tobytes(<<-1, height, width, data_type>>) \o numpy_image_array_.data)>>

-----------------------------------------------------------------------------
(* Inputs of the model *)

\* the largest row buffer holds one element more than the largest resolution needs
MaxElems == MaxCells + 1

Axis == 0..MaxCells

\* three bit patterns per element type, most significant byte first
Patterns(dtype) ==
    CASE dtype = "uint8" -> << <<0>>, <<150>>, <<255>> >>
      [] dtype = "int8" -> << <<1>>, <<127>>, <<128>> >>
      [] dtype = "int16" -> << <<0, 1>>, <<128, 0>>, <<255, 254>> >>
      [] dtype = "uint16" -> << <<0, 1>>, <<128, 0>>, <<255, 254>> >>
      [] dtype = "int32" -> << <<0, 0, 0, 3>>, <<128, 0, 0, 0>>, <<255, 255, 254, 255>> >>
      \* 1.0, -2.5, the smallest subnormal
      [] dtype = "float32" -> << <<63, 128, 0, 0>>, <<192, 32, 0, 0>>, <<0, 0, 0, 1>> >>
      \* 1, 2^63 + 1, 2^64 - 1
      [] dtype = "uint64" -> << <<0, 0, 0, 0, 0, 0, 0, 1>>, <<128, 0, 0, 0, 0, 0, 0, 1>>,
                                <<255, 255, 255, 255, 255, 255, 255, 255>> >>
      \* 1.0, -2.5, the smallest subnormal
      [] dtype = "float64" -> << <<63, 240, 0, 0, 0, 0, 0, 0>>, <<192, 4, 0, 0, 0, 0, 0, 0>>,
                                 <<0, 0, 0, 0, 0, 0, 0, 1>> >>

NPat == Len(Patterns("uint8"))

\* the memory of count elements of dtype: element k holds pattern (a + k*b) mod NPat
Memory(dtype, count, a, b) ==
    Flatten([k \in 1..count |-> Native(Patterns(dtype)[((a + (k - 1) * b) % NPat) + 1])])

\* the arrays handed to convert_numpy_to_wide
ArrayDTypes == {"uint8", "float32", "float64", "int16"}
Channels == {1, 2, 3, 4}
Shapes == {<<d0, d1, c>> : d0 \in Axis, d1 \in Axis, c \in Channels}
Arrays ==
    {NdArray(dtype, shape, Memory(dtype, Product(shape), a, b)) :
        dtype \in ArrayDTypes, shape \in {sh \in Shapes : sh[1] * sh[2] <= MaxCells},
        a \in 0..(NPat - 1), b \in 0..1}

\* the format tags handed to the row decoder: the eight known ones, the empty
\* tag and an unrecognized one
Tags == {"32S", "32F", "64F", "64U", "16S", "16U", "8U", "8S", "", "1U"}

\* the element type a buffer with the given tag was serialized from
TagDType(tag) ==
    CASE tag = "32S" -> "int32"
      [] tag = "32F" -> "float32"
      [] tag = "64F" -> "float64"
      [] tag = "64U" -> "uint64"
      [] tag = "16S" -> "int16"
      [] tag = "16U" -> "uint16"
      [] tag = "8S" -> "int8"
      [] OTHER -> "uint8"

\* the values of an undefined double -> uint64 cast: 0, 2^63, 2^64 - 1
CastOutcomes == {Zeros(64), <<1>> \o Zeros(63), Ones(64)}
\* only the uint64 branch converts through double
CastsFor(tag) == IF tag = "64U" THEN CastOutcomes ELSE {Zeros(64)}

\* resolutions: 0 to 3 axes of length 1 or more, MaxCells cells at most
RECURSIVE Tuples(_, _)
Tuples(S, n) ==
    IF n = 0 THEN {<<>>} ELSE {<<x>> \o t : x \in S, t \in Tuples(S, n - 1)}

Resolutions == {r \in UNION {Tuples(1..MaxCells, n) : n \in 0..3} : Product(r) <= MaxCells}

\* row buffers: up to MaxElems stored elements (or as many 3-byte pixels, for the
\* one-byte types), then possibly one stray byte
RowBuffers(tag) ==
    LET dtype == TagDType(tag)
        counts == IF itemsize(dtype) = 1
                  THEN (0..MaxElems) \cup {3 * k : k \in 0..MaxElems}
                  ELSE 0..MaxElems
    IN  {Memory(dtype, k, a, 1) \o Zeros(stray) :
            k \in counts, a \in 0..(NPat - 1), stray \in 0..1}

ChannelCounts == {1, 2, 3}

\* the dtype codes met in a wide image header: the six of ImageDataType and one more
Codes == {CV_8UC1, CV_8UC3, CV_32FC1, CV_32FC3, CV_64FC1, CV_64FC3}
HeaderCodes == Codes \cup {1}

\* wide images as a server may send them: a header of four int64 values and a
\* payload that holds the elements the header announces, or one more, or a stray byte
ReceivedWideImages ==
    {int64_tobytes(<<v0, x, y, code>>) \o Memory(dtype, x * y * c + more, a, b) \o Zeros(stray) :
        v0 \in {-1, 1}, x \in Axis, y \in Axis, code \in HeaderCodes,
        dtype \in {"uint8", "float32", "float64"}, c \in {1, 3}, more \in 0..1,
        a \in {0}, b \in 0..1, stray \in 0..1}

\* the rows of a fetched image table: a packed resolution of one to three int64
\* values (last axis first), a dimension that may differ from their number by one,
\* a format tag and a binary of as many elements as the resolution has cells, or one less
PackedResolutions == {r \in UNION {Tuples(1..MaxCells, m) : m \in 1..3} : Product(r) <= MaxCells}
FetchedTags == {"8U", "16S", "64F", ""}

FetchedRows ==
    {[binary |-> Memory(TagDType(tag), Product(packed) * per - less, a, 1),
      dimension |-> Len(packed) + off,
      resolution |-> int64_tobytes(packed),
      format |-> tag] :
        packed \in PackedResolutions, off \in {-1, 0, 1}, tag \in FetchedTags,
        per \in {1, 3}, less \in 0..1, a \in {0}}

\* the other row of the table
OtherRow == [binary |-> <<7>>, dimension |-> 1, resolution |-> int64_tobytes(<<1>>),
             format |-> "8U"]

-----------------------------------------------------------------------------
(* The calls *)

\* ImageUtils.convert_numpy_to_wide(A) on a 3-axis array A
ConvertNumpyToWide ==
    /\ pc = "start"
    /\ \E A \in Arrays :
        /\ pc' = "convert_numpy_to_wide"
        /\ numpy_image_array' = A
        /\ wide_byte_buffer' = convert_numpy_to_wide(A)
        /\ wide_origin' = "convert_numpy_to_wide"
        /\ output_array' = None
        /\ UNCHANGED <<byteorder, row_call, imageArray, fetched, medicalImageArray>>
    /\ UNCHANGED other_than_codec

\* the test helper builds an array and its wide image from an image row
CreateNumpyArrayAndWideImage ==
    /\ pc = "start"
    /\ \E width \in Axis, height \in Axis, data_type \in Codes, a \in 0..(NPat - 1), b \in 0..1 :
        /\ width * height <= MaxCells
        /\ LET made == create_numpy_array_and_wide_image(
                            Memory("uint8", 3 * MaxCells, a, b), width, height, data_type)
           IN  /\ numpy_image_array' = made[1]
               /\ wide_byte_buffer' = made[2]
        /\ pc' = "create_numpy_array_and_wide_image"
        /\ wide_origin' = "create_numpy_array_and_wide_image"
        /\ output_array' = None
        /\ UNCHANGED <<byteorder, row_call, imageArray, fetched, medicalImageArray>>
    /\ UNCHANGED other_than_codec

\* a wide image arrives from the server (a fetched _image_ column of a wide table)
ReceiveWideImage ==
    /\ pc = "start"
    /\ \E w \in ReceivedWideImages :
        /\ Len(w) <= 32 + 8 * MaxCells
        /\ wide_byte_buffer' = Bytes(w)
    /\ pc' = "received"
    /\ wide_origin' = "received"
    /\ numpy_image_array' = None
    /\ output_array' = None
    /\ UNCHANGED <<byteorder, row_call, imageArray, fetched, medicalImageArray>>
    /\ UNCHANGED other_than_codec

\* ImageUtils.convert_wide_to_numpy(wide_byte_buffer) on the buffer the caller holds
ConvertWideToNumpy ==
    /\ wide_byte_buffer.kind = "bytes"
    /\ pc # "convert_wide_to_numpy"
    /\ pc' = "convert_wide_to_numpy"
    /\ output_array' = convert_wide_to_numpy(wide_byte_buffer.val)
    /\ UNCHANGED <<byteorder, numpy_image_array, wide_byte_buffer, wide_origin,
                   row_call, imageArray, fetched, medicalImageArray>>
    /\ UNCHANGED other_than_codec

\* ImageUtils.get_image_array_from_row(image_binary, dimension, resolution, myformat, channel_count)
GetImageArrayFromRow ==
    /\ pc = "start"
    /\ \E myformat \in Tags, resolution \in Resolutions, channel_count \in ChannelCounts,
          extra \in 0..1 :
        \E image_binary \in RowBuffers(myformat), overflow_cast \in CastsFor(myformat) :
            LET dimension == Len(resolution) + extra
            IN  /\ pc' = "get_image_array_from_row"
                /\ row_call' = [image_binary |-> image_binary, dimension |-> dimension,
                                resolution |-> resolution, myformat |-> myformat,
                                channel_count |-> channel_count,
                                overflow_cast |-> overflow_cast]
                /\ imageArray' = get_image_array_from_row(image_binary, dimension, resolution,
                                                          myformat, channel_count, overflow_cast)
                /\ UNCHANGED <<byteorder, numpy_image_array, wide_byte_buffer, wide_origin,
                               output_array, fetched, medicalImageArray>>
    /\ UNCHANGED other_than_codec

\* ImageUtils.get_image_array(binaries, dimensions, resolutions, formats, n, channel_count)
\* on a fetched table of two rows
GetImageArray ==
    /\ pc = "start"
    /\ \E row \in FetchedRows, at \in 0..1, n \in 0..2, channel_count \in {1, 3} :
        LET rows == IF at = 0 THEN <<row, OtherRow>> ELSE <<OtherRow, row>>
            image_binaries == [i \in 1..2 |-> rows[i].binary]
            dimensions == [i \in 1..2 |-> rows[i].dimension]
            resolutions == [i \in 1..2 |-> rows[i].resolution]
            formats == [i \in 1..2 |-> rows[i].format]
        IN  /\ fetched' = [image_binaries |-> image_binaries, dimensions |-> dimensions,
                           resolutions |-> resolutions, formats |-> formats, n |-> n,
                           channel_count |-> channel_count]
            /\ medicalImageArray' =
                    get_image_array(image_binaries, dimensions, resolutions, formats, n,
                                    channel_count, Zeros(64))
    /\ pc' = "get_image_array"
    /\ UNCHANGED <<byteorder, numpy_image_array, wide_byte_buffer, wide_origin,
                   output_array, row_call, imageArray>>
    /\ UNCHANGED other_than_codec

\* the concurrent codec calls: two row decodes, one encode, one decode
Calls == 1..4

Init ==
    /\ byteorder \in {"little", "big"}
    /\ inputs = [c \in Calls |-> None]
    /\ call_state = [c \in Calls |-> "idle"]
    /\ frames = [c \in Calls |-> None]
    /\ results = [c \in Calls |-> None]
    /\ columninfo = None
    /\ column_names = None
    /\ image_table = None
    /\ decoded = None
    /\ auth_files = None
    /\ credentials_call = None
    /\ credentials = None
    /\ project = None
    /\ cvat_tasks = 0
    /\ posts = <<>>
    /\ resume_call = None
    /\ resumed = None
    /\ labels_call = None
    /\ labels_read = None
    /\ type_rows = None
    /\ image_type = None
    /\ tuner_call = None
    /\ tuner_pc = "idle"
    /\ thread_idx = None
    /\ perf_record = <<>>
    /\ perf_array = [statistic \in {} |-> 0]
    /\ tuner_calls = <<>>
    /\ tuner_results = None
    /\ pc = "start"
    /\ numpy_image_array = None
    /\ wide_byte_buffer = None
    /\ wide_origin = "none"
    /\ output_array = None
    /\ row_call = None
    /\ imageArray = None
    /\ fetched = None
    /\ medicalImageArray = None
    /\ imdata = None
    /\ geometry_call = None
    /\ fetches = 0
    /\ geometry_info = None
    /\ mask_call = None
    /\ mask = None
    /\ mask_lookup = None
    /\ mask_columns = None
    /\ mask_steps = <<>>
    /\ mask_pc = "idle"
    /\ auth_call = None
    /\ auth_pc = "idle"
    /\ attempt = 0
    /\ success = FALSE
    /\ cvat_url = None
    /\ auth_response = None
    /\ prompts = <<>>
    /\ token_file = None
    /\ decoders_call = None
    /\ decoders_rows = None
    /\ decoders_wide = None
    /\ decoders_pc = "idle"
    /\ table_object = None
    /\ table_raised = None
    /\ operations = 0
    /\ task_before = None
    /\ task_dict = None
    /\ task_after = None
    /\ results_object = None
    /\ property_call = None
    /\ property_before = None
    /\ property_read = None
    /\ assignments = 0

Next ==
    \/ ConvertNumpyToWide
    \/ CreateNumpyArrayAndWideImage
    \/ ReceiveWideImage
    \/ ConvertWideToNumpy
    \/ GetImageArrayFromRow
    \/ GetImageArray

Spec == Init /\ [][Next]_vars

-----------------------------------------------------------------------------
(* Concurrent calls of the static codec functions of ImageUtils *)

\* the function each call runs
CallFunction ==
    <<"get_image_array_from_row", "get_image_array_from_row", "convert_numpy_to_wide",
      "convert_wide_to_numpy">>

\* the arguments a caller may hand over
CallInputs(function) ==
    CASE function = "get_image_array_from_row" ->
            {[image_binary |-> Memory("uint8", 3, 1, 1), dimension |-> 2, resolution |-> <<1, 1>>,
              myformat |-> "8U", channel_count |-> 3],
             [image_binary |-> Memory("int16", 2, 0, 1), dimension |-> 2, resolution |-> <<2, 2>>,
              myformat |-> "16S", channel_count |-> 1]}
      [] function = "convert_numpy_to_wide" ->
            {[numpy_array |-> NdArray("float32", sh, Memory("float32", Product(sh), 0, 1))] :
                sh \in {<<1, 2, 1>>, <<1, 1, 2>>}}
      [] function = "convert_wide_to_numpy" ->
            {[wide_image |-> int64_tobytes(<<-1, 2, 1, code>>) \o Memory("uint8", 2, 1, 1)] :
                code \in {CV_8UC1, CV_8UC3}}

\* the body of a function applied to its arguments
Execute(function, args) ==
    CASE function = "get_image_array_from_row" ->
            get_image_array_from_row(args.image_binary, args.dimension, args.resolution,
                                     args.myformat, args.channel_count, Zeros(64))
      [] function = "convert_numpy_to_wide" -> convert_numpy_to_wide(args.numpy_array)
      [] function = "convert_wide_to_numpy" -> convert_wide_to_numpy(args.wide_image)

\* mutant: the functions keep their local result in one place shared by all calls
frame_shared(call) == 1

\* the frame that holds the locals of a call: each call of a Python function has its own
frame(call) == call

\* a caller enters the function with its arguments
Call(c) ==
    /\ call_state[c] = "idle"
    /\ \E args \in CallInputs(CallFunction[c]) : inputs' = [inputs EXCEPT ![c] = args]
    /\ call_state' = [call_state EXCEPT ![c] = "called"]
    /\ UNCHANGED <<byteorder, frames, results>>
    /\ UNCHANGED other_than_concurrent

\* the body runs: it reads the arguments and assigns its local (image_array, or the
\* wide image being built); the arguments are not written
Compute(c) ==
    /\ call_state[c] = "called"
    /\ frames' = [frames EXCEPT ![frame(c)] = Execute(CallFunction[c], inputs[c])]
    /\ call_state' = [call_state EXCEPT ![c] = "computed"]
    /\ UNCHANGED <<byteorder, inputs, results>>
    /\ UNCHANGED other_than_concurrent

\* return image_array: the local is handed back to the caller
Return(c) ==
    /\ call_state[c] = "computed"
    /\ results' = [results EXCEPT ![c] = frames[frame(c)]]
    /\ call_state' = [call_state EXCEPT ![c] = "returned"]
    /\ UNCHANGED <<byteorder, inputs, frames>>
    /\ UNCHANGED other_than_concurrent

NextConcurrent == \E c \in Calls : Call(c) \/ Compute(c) \/ Return(c)

SpecConcurrent == Init /\ [][NextConcurrent]_vars

-----------------------------------------------------------------------------
(* Image.fetch_geometry_info *)

\* the value ((), (), ()) and, in general, (pos, ori, spa)
GeometryTuple(pos, ori, spa) == [kind |-> "tuple", pos |-> pos, ori |-> ori, spa |-> spa]

\* mutant: only the position column is looked for
has_position_column(columns) == "_position_" \in columns

\* {'_position_', '_spacing_', '_orientation_'}.issubset(imdata.columns)
has_geometry_columns(columns) == {"_position_", "_spacing_", "_orientation_"} \subseteq columns

\* imdata[[...]].query(qry).to_frame(to=n), or without the query when qry == '':
\* the rows the server returns. The request names columns; the server refuses a
\* column the table does not have. With to=0 the server applies no limit.
to_frame(table, columns, qry, n) ==
    IF ~(columns \subseteq table.columns) THEN Raise("SWATError")
    ELSE LET rows == IF qry # "" THEN table.matching ELSE table.rows
         IN  [kind |-> "frame",
              rows |-> IF n = 0 \/ n >= Len(rows) THEN rows ELSE SubSeq(rows, 1, n)]

\* the result of the call and the number of fetches it sent
fetch_geometry_info(table, n, qry, posCol, oriCol, spaCol, dimCol) ==
    IF ~has_geometry_columns(table.columns)
    THEN [val |-> GeometryTuple(<<>>, <<>>, <<>>), fetches |-> 0]
    ELSE
    LET example_rows == to_frame(table, {dimCol, posCol, oriCol, spaCol}, qry, n)
    IN  IF IsRaise(example_rows) THEN [val |-> example_rows, fetches |-> 1]
        ELSE IF example_rows.rows = <<>> THEN [val |-> Raise("KeyError"), fetches |-> 1]
        ELSE
        LET row == example_rows.rows[1]
            dim == row.dim
            pos == struct_unpack("d", dim, Slice(row.pos, 0, dim * 8))
            ori == struct_unpack("d", dim * dim, Slice(row.ori, 0, dim * dim * 8))
            spa == struct_unpack("d", dim, Slice(row.spa, 0, dim * 8))
        IN  IF IsRaise(pos) THEN [val |-> pos, fetches |-> 1]
            ELSE IF IsRaise(ori) THEN [val |-> ori, fetches |-> 1]
            ELSE IF IsRaise(spa) THEN [val |-> spa, fetches |-> 1]
            ELSE [val |-> GeometryTuple(pos.items, ori.items, spa.items), fetches |-> 1]

\* the column names a table may have, and the position columns a caller may name
GeometryColumns == {"_dimension_", "_position_", "_orientation_", "_spacing_", "pos"}
PositionColumns == {"_position_", "pos"}

\* rows of 1 or 2 axes; the orientation may lack its last value
GeometryRows ==
    {[dim |-> d, pos |-> Memory("float64", d, a, 1), ori |-> Memory("float64", d * d - short, a, 1),
      spa |-> Memory("float64", d, 0, 0)] : d \in 1..2, short \in 0..1, a \in 0..1}

\* tables: any set of columns, no row or one row, which the query keeps or not
GeometryTables ==
    {[columns |-> c, rows |-> r, matching |-> m] :
        c \in SUBSET GeometryColumns,
        r \in {<<>>} \cup {<<row>> : row \in GeometryRows},
        m \in {<<>>} \cup {<<row>> : row \in GeometryRows}}

\* Image.fetch_geometry_info(imdata, n, qry, posCol)
FetchGeometryInfo ==
    /\ pc = "start"
    /\ \E table \in GeometryTables, n \in 0..1, qry \in {"", "_id_ = 1"},
          posCol \in PositionColumns :
        /\ table.matching \in {<<>>, table.rows}
        /\ LET done == fetch_geometry_info(table, n, qry, posCol, "_orientation_", "_spacing_",
                                           "_dimension_")
           IN  /\ geometry_info' = done.val
               /\ fetches' = fetches + done.fetches
        /\ imdata' = table
        /\ geometry_call' = [n |-> n, qry |-> qry, posCol |-> posCol]
    /\ pc' = "fetch_geometry_info"
    /\ UNCHANGED byteorder
    /\ UNCHANGED other_than_geometry

NextGeometry == FetchGeometryInfo

SpecGeometry == Init /\ [][NextGeometry]_vars

-----------------------------------------------------------------------------
(* cvpy.base.ImageTable *)

Str(name) == [kind |-> "str", val |-> name]

\* the nine column attributes, in the order __init__ sets them
ColumnAttributes ==
    <<"image", "dimension", "resolution", "imageFormat", "path", "label", "id", "size", "type">>

\* IMAGE_COL ... TYPE_COL
DefaultColumn(column) ==
    CASE column = "image" -> "_image_"
      [] column = "dimension" -> "_dimension_"
      [] column = "resolution" -> "_resolution_"
      [] column = "imageFormat" -> "_imageFormat_"
      [] column = "path" -> "_path_"
      [] column = "label" -> "_label_"
      [] column = "id" -> "_id_"
      [] column = "size" -> "_size_"
      [] column = "type" -> "_type_"

\* the valid_column_datatypes each property setter passes
ValidColumnDatatypes(column) ==
    CASE column = "image" -> {"varbinary(image)", "varchar"}
      [] column = "dimension" -> {"int64"}
      [] column = "resolution" -> {"varbinary"}
      [] column = "imageFormat" -> {"int64"}
      [] column = "path" -> {"varchar"}
      [] column = "label" -> {"varchar"}
      [] column = "id" -> {"int64"}
      [] column = "size" -> {"int64"}
      [] column = "type" -> {"char"}

\* str.lower() on the names and types that occur
lower(name) ==
    CASE name = "_imageFormat_" -> "_imageformat_"
      [] name \in {"new_imageFormat_", "NEW_IMAGEFORMAT_"} -> "new_imageformat_"
      [] name = "NEW_IMAGE_" -> "new_image_"
      [] name = "NEW_DIMENSION_" -> "new_dimension_"
      [] name = "NEW_RESOLUTION_" -> "new_resolution_"
      [] name = "NEW_PATH_" -> "new_path_"
      [] name = "NEW_LABEL_" -> "new_label_"
      [] name = "NEW_ID_" -> "new_id_"
      [] name = "NEW_SIZE_" -> "new_size_"
      [] name = "NEW_TYPE_" -> "new_type_"
      [] name = "VARCHAR" -> "varchar"
      [] OTHER -> name

\* the table setter: {k.lower(): v.lower()} of the table's columninfo
column_dtype_lookup(info) ==
    [k \in {lower(c) : c \in DOMAIN info} |->
        lower(info[CHOOSE c \in DOMAIN info : lower(c) = k])]

\* mutant: the data type is validated for a given name only
validate_given_column(lookup, column_name, default_column_name, valid_column_datatypes) ==
    IF column_name.kind = "str" /\ column_name.val # ""
    THEN IF lower(column_name.val) \notin DOMAIN lookup THEN Raise("Exception")
         ELSE IF lookup[lower(column_name.val)] \notin valid_column_datatypes
              THEN Raise("Exception")
              ELSE column_name
    ELSE IF lower(default_column_name) \in DOMAIN lookup THEN Str(default_column_name)
         ELSE column_name

\* validate_set_column on an ImageTable whose table is set: the value the attribute
\* gets, or the exception
validate_set_column(lookup, column_name, default_column_name, valid_column_datatypes) ==
    LET given == column_name.kind = "str" /\ column_name.val # ""
        resolved ==
            IF given THEN column_name
            ELSE IF lower(default_column_name) \in DOMAIN lookup THEN Str(default_column_name)
            ELSE column_name
        truthy == resolved.kind = "str" /\ resolved.val # ""
    IN  IF given /\ lower(column_name.val) \notin DOMAIN lookup THEN Raise("Exception")
        ELSE IF truthy /\ lookup[lower(resolved.val)] \notin valid_column_datatypes
             THEN Raise("Exception")
        ELSE resolved

\* ImageTable.__init__(table, image=..., ..., type=...): the nine setters run in order;
\* the first exception leaves __init__
ImageTable(info, names) ==
    LET lookup == column_dtype_lookup(info)
        set(column) == validate_set_column(lookup, names[column], DefaultColumn(column),
                                           ValidColumnDatatypes(column))
        failed == {k \in 1..Len(ColumnAttributes) : IsRaise(set(ColumnAttributes[k]))}
    IN  IF failed # {}
        THEN set(ColumnAttributes[CHOOSE k \in failed : \A j \in failed : k <= j])
        ELSE [kind |-> "ImageTable",
              columns |-> [k \in 1..Len(ColumnAttributes) |-> set(ColumnAttributes[k])]]

\* the attribute of a constructed ImageTable
Attribute(object, column) ==
    object.columns[CHOOSE k \in 1..Len(ColumnAttributes) : ColumnAttributes[k] = column]

has_decoded_images(object) ==
    /\ Attribute(object, "dimension") # None
    /\ Attribute(object, "resolution") # None
    /\ Attribute(object, "imageFormat") # None

\* the name a caller may give for a column, and the column a table may hold under it
GivenName(column) ==
    CASE column = "image" -> "new_image_"
      [] column = "dimension" -> "new_dimension_"
      [] column = "resolution" -> "new_resolution_"
      [] column = "imageFormat" -> "new_imageFormat_"
      [] column = "path" -> "new_path_"
      [] column = "label" -> "new_label_"
      [] column = "id" -> "new_id_"
      [] column = "size" -> "new_size_"
      [] column = "type" -> "new_type_"

RenamedColumn(column) ==
    CASE column = "image" -> "NEW_IMAGE_"
      [] column = "dimension" -> "NEW_DIMENSION_"
      [] column = "resolution" -> "NEW_RESOLUTION_"
      [] column = "imageFormat" -> "NEW_IMAGEFORMAT_"
      [] column = "path" -> "NEW_PATH_"
      [] column = "label" -> "NEW_LABEL_"
      [] column = "id" -> "NEW_ID_"
      [] column = "size" -> "NEW_SIZE_"
      [] column = "type" -> "NEW_TYPE_"

AttributeSet == {ColumnAttributes[k] : k \in 1..Len(ColumnAttributes)}

\* how a column may stand in a table: absent, of a valid type, of another type
Standings == {"absent", "valid", "double"}

TypeOf(column, standing) ==
    IF standing = "double" THEN "double"
    ELSE IF column = "path" THEN "VARCHAR"
    ELSE CHOOSE t \in ValidColumnDatatypes(column) : TRUE

\* a loaded image table in which the columns of the attributes in `varied` stand as
\* `default` (the default-named column) and `renamed` (the renamed column) say;
\* every other attribute has its default column, of a valid type
TableWith(varied, default, renamed) ==
    LET present ==
            {DefaultColumn(a) : a \in {x \in AttributeSet : x \notin varied \/ default[x] # "absent"}}
            \cup {RenamedColumn(a) : a \in {x \in varied : renamed[x] # "absent"}}
        attribute(c) == CHOOSE a \in AttributeSet : c \in {DefaultColumn(a), RenamedColumn(a)}
    IN  [c \in present |->
            LET a == attribute(c)
            IN  IF a \notin varied THEN TypeOf(a, "valid")
                ELSE IF c = DefaultColumn(a) THEN TypeOf(a, default[a])
                ELSE TypeOf(a, renamed[a])]

\* ImageTable(table, ...) on a table and names that depart from a loaded image table
\* in two attributes at most
ConstructImageTable ==
    /\ pc = "start"
    /\ \E first \in AttributeSet, second \in {"dimension", "imageFormat"} :
        LET varied == {first, second}
        IN  \E default \in [varied -> Standings], renamed \in [varied -> Standings],
               given \in [varied -> {None, Str(""), Str("name")}] :
                LET info == TableWith(varied, default, renamed)
                    names == [a \in AttributeSet |->
                                IF a \notin varied THEN None
                                ELSE IF given[a] = Str("name") THEN Str(GivenName(a))
                                ELSE given[a]]
                IN  /\ columninfo' = info
                    /\ column_names' = names
                    /\ image_table' = ImageTable(info, names)
    /\ decoded' = None
    /\ pc' = "ImageTable"
    /\ UNCHANGED other_than_imagetable

\* image_table.has_decoded_images()
HasDecodedImages ==
    /\ pc = "ImageTable"
    /\ image_table.kind = "ImageTable"
    /\ decoded' = [kind |-> "bool", val |-> has_decoded_images(image_table)]
    /\ pc' = "has_decoded_images"
    /\ UNCHANGED <<columninfo, column_names, image_table>>
    /\ UNCHANGED other_than_imagetable

NextImageTable == ConstructImageTable \/ HasDecodedImages

SpecImageTable == Init /\ [][NextImageTable]_vars

-----------------------------------------------------------------------------
(* cvpy.annotation.base.Credentials *)

\* a Python str as the sequence of its characters
Text(chars) == [kind |-> "str", val |-> chars]

\* truth value of None or a str
Truthy(value) == value.kind = "str" /\ value.val # <<>>

Whitespace == {" ", "\n", "\t"}

\* str.strip()
RECURSIVE lstrip(_)
lstrip(chars) ==
    IF chars # <<>> /\ Head(chars) \in Whitespace THEN lstrip(Tail(chars)) ELSE chars

strip(chars) == Reverse(lstrip(Reverse(lstrip(chars))))

\* str.split(','): the pieces between the commas, one piece at least
RECURSIVE split(_)
split(chars) ==
    IF \A i \in 1..Len(chars) : chars[i] # "," THEN <<chars>>
    ELSE LET at == CHOOSE i \in 1..Len(chars) :
                        chars[i] = "," /\ \A j \in 1..(i - 1) : chars[j] # ","
         IN  <<SubSeq(chars, 1, at - 1)>> \o split(SubSeq(chars, at + 1, Len(chars)))

\* stat.S_IRGRP, S_IWGRP, S_IROTH, S_IWOTH
S_IRGRP == 32
S_IWGRP == 16
S_IROTH == 4
S_IWOTH == 2

\* mode & bit, for a bit that is a power of two
And(mode, bit) == IF (mode \div bit) % 2 = 1 THEN bit ELSE 0

\* mutant: only the bits of the others are tested
others_can_access(mode) == And(mode, S_IROTH) # 0 \/ And(mode, S_IWOTH) # 0

\* (mode & S_IRGRP) or (mode & S_IWGRP) or (mode & S_IROTH) or (mode & S_IWOTH)
group_or_others_can_access(mode) ==
    \/ And(mode, S_IRGRP) # 0
    \/ And(mode, S_IWGRP) # 0
    \/ And(mode, S_IROTH) # 0
    \/ And(mode, S_IWOTH) # 0

\* no file at a path
Absent == [kind |-> "absent"]

\* Credentials.__init__(username, password, token, auth_file) with the files found at
\* the path auth_file names (named) and at ~/.annotation_auth (default)
Credentials(username, password, token, auth_file, named, default) ==
    IF (Truthy(username) /\ Truthy(password)) \/ Truthy(token)
    THEN [kind |-> "Credentials", username |-> username, password |-> password, token |-> token]
    ELSE
    LET use_default == ~Truthy(username) /\ ~Truthy(password) /\ ~Truthy(auth_file)
                       /\ default.kind = "file"
        file == IF use_default THEN default ELSE IF Truthy(auth_file) THEN named ELSE Absent
        read == use_default \/ Truthy(auth_file)
    IN  IF read /\ file.kind # "file" THEN Raise("FileNotFoundError")
        ELSE IF read /\ group_or_others_can_access(file.mode) THEN Raise("Exception")
        ELSE
        LET auth_fields == IF read THEN split(file.line) ELSE <<>>
            self_token == IF read /\ Len(auth_fields) = 1 THEN Text(strip(auth_fields[1]))
                          ELSE token
            self_username == IF read /\ Len(auth_fields) = 2 THEN Text(strip(auth_fields[1]))
                             ELSE username
            self_password == IF read /\ Len(auth_fields) = 2 THEN Text(strip(auth_fields[2]))
                             ELSE password
        IN  IF read /\ Len(auth_fields) > 2 THEN Raise("Exception")
            ELSE IF ~Truthy(self_token) /\ (~Truthy(self_username) \/ ~Truthy(self_password))
                 THEN Raise("Exception")
            ELSE [kind |-> "Credentials", username |-> self_username,
                  password |-> self_password, token |-> self_token]

\* the arguments a caller may pass for a name, a password or a token
Secrets == {None, Text(<<>>), Text(<<"s">>)}

\* modes: 0600, 0640, 0620, 0604, 0602, 0700
Modes == {384, 416, 400, 388, 386, 448}

\* first lines: empty file, a token, blanks, user and password, a blank password,
\* three fields
FirstLines ==
    {<<>>, <<"t", "\n">>, <<" ", "\n">>, <<"u", ",", " ", "p", "\n">>, <<"u", ",", "\n">>,
     <<"a", ",", "b", ",", "c", "\n">>}

AuthFiles == {Absent} \cup {[kind |-> "file", mode |-> m, line |-> l] : m \in Modes, l \in FirstLines}

\* the files ~/.annotation_auth may be
DefaultAuthFiles ==
    {Absent, [kind |-> "file", mode |-> 384, line |-> <<"t", "\n">>],
     [kind |-> "file", mode |-> 416, line |-> <<"t", "\n">>],
     [kind |-> "file", mode |-> 384, line |-> <<"a", ",", "b", ",", "c", "\n">>]}

\* Credentials(username, password, token, auth_file)
ConstructCredentials ==
    /\ pc = "start"
    /\ \E username \in Secrets, password \in Secrets, token \in Secrets,
          auth_file \in {None, Text(<<"f">>)}, named \in AuthFiles, default \in DefaultAuthFiles :
        /\ (auth_file = None) => named = Absent
        /\ auth_files' = [named |-> named, default |-> default]
        /\ credentials_call' = [username |-> username, password |-> password, token |-> token,
                                auth_file |-> auth_file]
        /\ credentials' = Credentials(username, password, token, auth_file, named, default)
    /\ pc' = "Credentials"
    /\ UNCHANGED other_than_credentials

NextCredentials == ConstructCredentials

SpecCredentials == Init /\ [][NextCredentials]_vars

-----------------------------------------------------------------------------
(* cvpy.annotation: Project, Task, CVATTask, CVATProject *)

\* the largest number of post_images calls on the project
MaxPosts == 3

\* HTTPStatus.CREATED and HTTPStatus.ACCEPTED
CREATED == 201
ACCEPTED == 202

\* AnnotationType
CLASSIFICATION == 1
OBJECT_DETECTION == 2
SEMANTIC_SEGMENTATION == 3

PyInt(n) == [kind |-> "int", val |-> n]
List(items) == [kind |-> "list", items |-> items]
Dict(items) == [kind |-> "dict", items |-> items]

\* bool(value) of a str or of None
nonempty(value) == value.kind = "str" /\ value.val # ""

\* a table of the CAS session: to_table_name() and tableinfo().TableInfo.Rows
CASTable(name, rows) == [kind |-> "CASTable", name |-> name, rows |-> rows]

\* a reference to an object: the object's place in memory
Ref(object) == [kind |-> "ref", to |-> object.self]

\* ImageTable(table, ...) on a CAS table with the columns `info`
ImageTableOn(table, info, names) ==
    LET object == ImageTable(info, names)
    IN  IF IsRaise(object) THEN object
        ELSE [kind |-> "ImageTable", columns |-> object.columns, table |-> table]

\* ImageTable(None, ...): validate_set_column when self.table is None
ImageTableWithoutTable(names) ==
    [kind |-> "ImageTable",
     columns |-> [k \in 1..Len(ColumnAttributes) |->
                    LET column == ColumnAttributes[k]
                    IN  IF nonempty(names[column]) THEN names[column]
                        ELSE Str(DefaultColumn(column))],
     table |-> None]

\* the names the classes of cvpy.annotation.base define besides __init__
ClassAttributes(class) ==
    CASE class = "Credentials" -> {"username", "password", "token", "get_auth_header"}
      [] class = "AnnotationLabel" -> {"name", "color"}
      [] class = "CVATTask" -> {"task_id", "start_image_id", "end_image_id", "image_table",
                                "image_table_name", "project", "as_dict", "from_dict"}

\* the properties of Project whose setter stores the value in the underscored attribute
StoringSetters ==
    {"cas_connection", "url", "credentials", "project_name", "annotation_type", "project_id"}

Underscored(name) ==
    CASE name = "cas_connection" -> "_cas_connection"
      [] name = "url" -> "_url"
      [] name = "credentials" -> "_credentials"
      [] name = "project_name" -> "_project_name"
      [] name = "annotation_type" -> "_annotation_type"
      [] name = "project_id" -> "_project_id"

\* project.<name> = value: the setter of a property when Project defines one (the setter
\* of labels assigns self.labels, which calls the setter again), an instance attribute
\* of that name otherwise
setattr(object, name, value) ==
    IF name = "labels" THEN Raise("RecursionError")
    ELSE LET target == IF name \in StoringSetters THEN Underscored(name) ELSE name
         IN  [k \in DOMAIN object \cup {target} |-> IF k = target THEN value ELSE object[k]]

\* Project.__init__
Project(self, cas_connection, url, credentials_, project_name, annotation_type, labels) ==
    [kind |-> "CVATProject", self |-> self,
     _cas_connection |-> cas_connection, _url |-> url, _credentials |-> credentials_,
     _project_name |-> project_name, _annotation_type |-> annotation_type,
     _labels |-> labels, _project_id |-> None, _tasks |-> <<>>]

\* CVATProject._create_project_in_cvat; AnnotationLabel defines no as_dict
create_project_in_cvat(self, response) ==
    IF /\ self._annotation_type \in {PyInt(OBJECT_DETECTION), PyInt(CLASSIFICATION)}
       /\ self._labels = None
    THEN Raise("TypeError")
    ELSE IF /\ self._annotation_type \in {PyInt(OBJECT_DETECTION), PyInt(CLASSIFICATION)}
            /\ self._labels.items # <<>>
            /\ "as_dict" \notin ClassAttributes("AnnotationLabel")
    THEN Raise("AttributeError")
    ELSE IF response.status_code # CREATED THEN Raise("Exception")
    ELSE setattr(self, "project_id", PyInt(response.id))

\* CVATProject.__init__ with credentials that hold a token
CVATProject(self, cas_connection, url, credentials_, project_name, annotation_type, labels, response) ==
    LET base == Project(self, cas_connection, url, credentials_, project_name,
                        annotation_type, labels)
        versioned == setattr(base, "project_version", PyInt(1))
    IN  IF nonempty(url) THEN create_project_in_cvat(versioned, response) ELSE versioned

\* mutant: the new task is put in front of the list
add_task_first(self, task) == [self EXCEPT !._tasks = <<task>> \o @]

\* Project.add_task
add_task(self, task) == [self EXCEPT !._tasks = Append(@, task)]

\* Project.get_tasks
get_tasks(self) == self._tasks

\* Task.__init__
Task(image_table_, project_) ==
    [kind |-> "CVATTask", _task_id |-> None,
     _project |-> IF project_ = None THEN None ELSE Ref(project_),
     _image_table |-> image_table_, _start_image_id |-> PyInt(0),
     _image_table_name |-> IF image_table_ = None THEN None ELSE Str(image_table_.table.name),
     _end_image_id |-> IF image_table_ = None THEN PyInt(0) ELSE PyInt(image_table_.table.rows - 1)]

\* CVATTask._create_task_in_cvat; response is the answer to POST /api/tasks
create_task_in_cvat(task, response) ==
    IF response.status_code # CREATED THEN Raise("Exception")
    ELSE [task EXCEPT !._task_id = PyInt(response.id)]

\* CVATTask.__init__
CVATTask(image_table_, project_, response) ==
    LET task == Task(image_table_, project_)
    IN  IF project_ # None /\ nonempty(project_._url)
        THEN create_task_in_cvat(task, response)
        ELSE task

\* CVATProject.post_images; task_response and data_response are the server's answers to
\* POST /api/tasks and POST /api/tasks/<id>/data, `created` counts the tasks the server
\* created during the call
post_images(self, image_table_, task_response, data_response) ==
    LET raises(exception, created) ==
            [self |-> self, raised |-> exception, created |-> created]
    IN  IF Attribute(image_table_, "id") = None THEN raises(Raise("Exception"), 0)
        ELSE IF Attribute(image_table_, "image") = None THEN raises(Raise("Exception"), 0)
        ELSE IF Attribute(image_table_, "type") = None THEN raises(Raise("Exception"), 0)
        ELSE LET task == CVATTask(image_table_, self, task_response)
             IN  IF IsRaise(task) THEN raises(task, 0)
                 ELSE IF ~nonempty(self._url) THEN raises(Raise("MissingSchema"), 0)
                 ELSE IF data_response.status_code # ACCEPTED
                      THEN raises(Raise("Exception"), 1)
                 ELSE [self |-> add_task(self, task), raised |-> None, created |-> 1]

(* JSON documents: the text is held as the tree it denotes *)
JNull == [json |-> "null"]
JString(val) == [json |-> "string", val |-> val]
JNumber(val) == [json |-> "number", val |-> val]
JArray(items) == [json |-> "array", items |-> items]
JObject(members) == [json |-> "object", members |-> members]

\* json.loads
RECURSIVE json_loads(_)
json_loads(j) ==
    CASE j.json = "null" -> None
      [] j.json = "string" -> Str(j.val)
      [] j.json = "number" -> PyInt(j.val)
      [] j.json = "array" -> List([k \in 1..Len(j.items) |-> json_loads(j.items[k])])
      [] j.json = "object" -> Dict([k \in DOMAIN j.members |-> json_loads(j.members[k])])

\* dict.get(key)
get(dict, key) == IF key \in DOMAIN dict.items THEN dict.items[key] ELSE None

\* CVATTask.from_dict
CVATTask_from_dict(object_dict) ==
    LET task == CVATTask(None, None, None)
        image_table_json == get(object_dict, "image_table")
        image_table_ == ImageTableWithoutTable(
            [column \in AttributeSet |-> get(image_table_json, column)])
    IN  [task EXCEPT !._task_id = get(object_dict, "task_id"),
                     !._image_table_name = get(object_dict, "image_table_name"),
                     !._image_table = image_table_,
                     !._start_image_id = get(object_dict, "start_image_id"),
                     !._end_image_id = get(object_dict, "end_image_id")]

\* <class>.from_dict(object_dict): the attribute is looked up on the class first
from_dict(class, object_dict) ==
    IF "from_dict" \notin ClassAttributes(class) THEN Raise("AttributeError")
    ELSE CVATTask_from_dict(object_dict)

\* the first exception of a list of values, None when there is none
first_raise(values) ==
    LET raising == {k \in 1..Len(values) : IsRaise(values[k])}
    IN  IF raising = {} THEN None
        ELSE values[CHOOSE k \in raising : \A j \in raising : k <= j]

\* AnnotationType(value)
AnnotationType(value) ==
    IF value \in {PyInt(CLASSIFICATION), PyInt(OBJECT_DETECTION), PyInt(SEMANTIC_SEGMENTATION)}
    THEN value ELSE Raise("ValueError")

\* CVATProject.from_json
from_json(project_json_str) ==
    LET project_dict == json_loads(project_json_str)
        project0 == CVATProject("restored", None, None, None, None, None, None, None)
        project1 == setattr(project0, "url", get(project_dict, "url"))
        project2 == setattr(project1, "project_id", get(project_dict, "project_id"))
        project3 == setattr(project2, "project_name", get(project_dict, "project_name"))
        project4 == setattr(project3, "project_version", get(project_dict, "project_version"))
        credentials_ == from_dict("Credentials", get(project_dict, "credentials"))
    IN  IF IsRaise(credentials_) THEN credentials_
        ELSE
        LET project5 == setattr(project4, "credentials", credentials_)
            annotation_type == AnnotationType(get(project_dict, "annotation_type"))
        IN  IF IsRaise(annotation_type) THEN annotation_type
            ELSE
            LET project6 == setattr(project5, "annotation_type", annotation_type)
                label_dicts == get(project_dict, "labels").items
                labels == [k \in 1..Len(label_dicts) |->
                            from_dict("AnnotationLabel", label_dicts[k])]
            IN  IF first_raise(labels) # None THEN first_raise(labels)
                ELSE
                LET project7 == setattr(project6, "labels", List(labels))
                IN  IF IsRaise(project7) THEN project7
                    ELSE
                    LET task_dicts == get(project_dict, "tasks").items
                        tasks == [k \in 1..Len(task_dicts) |->
                                    from_dict("CVATTask", task_dicts[k])]
                    IN  IF first_raise(tasks) # None THEN first_raise(tasks)
                        ELSE setattr(project7, "tasks", tasks)

\* CVATProject.resume; `saved` is what the caslib holds under relative_path: the project
\* table's JSON and the rows of each saved image table; `loaded` are the tables the
\* call loaded into the session
resume(project_name, cas_connection, saved) ==
    LET project_json == saved.project_json
        cvat_project == from_json(project_json)
    IN  IF IsRaise(cvat_project) THEN [val |-> cvat_project, loaded |-> {project_name}]
        ELSE
        LET connected == setattr(cvat_project, "cas_connection", cas_connection)
            tasks == get_tasks(connected)
            restored(task) ==
                [task EXCEPT
                    !._image_table.table =
                        CASTable(task._image_table_name.val,
                                 saved.rows[task._image_table_name.val]),
                    !._project = Ref(connected)]
        IN  [val |-> [connected EXCEPT
                        !._tasks = [k \in 1..Len(tasks) |-> restored(tasks[k])]],
             loaded |-> {project_name}
                        \cup {tasks[k]._image_table_name.val : k \in 1..Len(tasks)}]

(* Inputs of the CVATProject calls *)

TheConnection == [kind |-> "CAS", session |-> "session"]
TheCredentials == [kind |-> "Credentials", token |-> "token"]
TheLabel == [kind |-> "AnnotationLabel", name |-> "Person", color |-> "green"]

\* the image tables handed to post_images: two complete ones, and one without each of
\* the columns post_images requires
PostedImageTables ==
    {ImageTableOn(CASTable(name, 2), TableWith({}, <<>>, <<>>), [a \in AttributeSet |-> None])
        : name \in {"encoded", "decoded"}}
    \cup {ImageTableOn(CASTable("partial", 2),
                       TableWith({missing}, [a \in {missing} |-> "absent"],
                                 [a \in {missing} |-> "absent"]),
                       [a \in AttributeSet |-> None])
            : missing \in {"id", "image", "type"}}

\* the column names of an image table as Task.as_dict writes them
SavedImageTable ==
    JObject([column \in AttributeSet |->
        IF column \in {"image", "id", "type", "path"} THEN JString(DefaultColumn(column))
        ELSE JNull])

SavedTask(task_id, name) ==
    JObject([task_id |-> JNumber(task_id), image_table_name |-> JString(name),
             image_table |-> SavedImageTable, start_image_id |-> JNumber(0),
             end_image_id |-> JNumber(1)])

SavedLabel == JObject([name |-> JString("Person"), color |-> JString("green")])

\* the JSON of a saved project
SavedProject(labels, tasks) ==
    JObject([url |-> JString("http://cvat"), project_id |-> JNumber(285),
             project_name |-> JString("MyDemoProject"), project_version |-> JNumber(1),
             credentials |-> JObject([username |-> JNull, password |-> JNull,
                                      token |-> JString("token")]),
             annotation_type |-> JNumber(OBJECT_DETECTION),
             labels |-> JArray(labels), tasks |-> JArray(tasks)])

SavedProjects ==
    {[project_json |-> SavedProject(labels, tasks), rows |-> [name \in {"encoded", "decoded"} |-> 2]]
        : labels \in {<<>>, <<SavedLabel>>},
          tasks \in {<<>>, <<SavedTask(1, "encoded")>>,
                     <<SavedTask(1, "encoded"), SavedTask(2, "decoded")>>}}

(* The CVATProject calls *)

\* CVATProject(cas_connection, url, credentials, project_name, annotation_type, labels)
ConstructProject ==
    /\ project = None
    /\ \E url \in {None, Str("http://cvat")},
          annotation_type \in {PyInt(OBJECT_DETECTION), PyInt(SEMANTIC_SEGMENTATION)},
          labels \in {List(<<>>), List(<<TheLabel>>)},
          status_code \in {CREATED, 500} :
            project' = CVATProject("constructed", TheConnection, url, TheCredentials,
                                   Str("MyDemoProject"), annotation_type, labels,
                                   [status_code |-> status_code, id |-> 285])
    /\ UNCHANGED <<cvat_tasks, posts, resume_call, resumed, labels_call, labels_read>>
    /\ UNCHANGED other_than_project

\* project.post_images(image_table)
PostImages ==
    /\ project.kind = "CVATProject"
    /\ Len(posts) < MaxPosts
    /\ \E image_table_ \in PostedImageTables,
          task_status \in {CREATED, 500}, data_status \in {ACCEPTED, 400} :
            LET task_response == [status_code |-> task_status, id |-> cvat_tasks + 1]
                data_response == [status_code |-> data_status]
                call == post_images(project, image_table_, task_response, data_response)
            IN  /\ project' = call.self
                /\ cvat_tasks' = cvat_tasks + call.created
                /\ posts' = Append(posts,
                        [image_table_name |-> image_table_.table.name,
                         raised |-> call.raised,
                         task_id |-> IF call.created = 1 THEN PyInt(cvat_tasks + 1) ELSE None])
    /\ UNCHANGED <<resume_call, resumed, labels_call, labels_read>>
    /\ UNCHANGED other_than_project

\* CVATProject.resume(project_name, cas_connection, caslib, relative_path)
Resume ==
    /\ resume_call = None
    /\ \E saved \in SavedProjects :
        /\ resume_call' = [project_name |-> "MyDemoProject", saved |-> saved]
        /\ resumed' = resume("MyDemoProject", TheConnection, saved)
    /\ UNCHANGED <<project, cvat_tasks, posts, labels_call, labels_read>>
    /\ UNCHANGED other_than_project

NextProject == ConstructProject \/ PostImages \/ Resume

SpecProject == Init /\ [][NextProject]_vars

(* The labels property of Project *)

\* the getter of Project.labels
labels(self) == self._labels

OtherLabel == [kind |-> "AnnotationLabel", name |-> "Mountain", color |-> "orange"]

\* the lists a caller assigns
LabelLists ==
    {List(<<>>)} \cup {List(<<a>>) : a \in {TheLabel, OtherLabel}}
                 \cup {List(<<a, b>>) : a, b \in {TheLabel, OtherLabel}}

\* project.labels = value, then project.labels
AssignLabels ==
    /\ project.kind = "CVATProject"
    /\ \E value \in LabelLists :
        LET assigned == setattr(project, "labels", value)
        IN  /\ labels_call' = value
            /\ project' = IF IsRaise(assigned) THEN project ELSE assigned
            /\ labels_read' = IF IsRaise(assigned) THEN assigned ELSE labels(assigned)
    /\ UNCHANGED <<cvat_tasks, posts, resume_call, resumed>>
    /\ UNCHANGED other_than_project

NextLabels == ConstructProject \/ AssignLabels

SpecLabels == Init /\ [][NextLabels]_vars

-----------------------------------------------------------------------------
(* ImageTable._get_image_type *)

\* the largest number of rows of the table
MaxRows == 4

\* ImageTable.BIOMED_IMAGE_FORMATS
BIOMED_IMAGE_FORMATS == {"dcm", "nii", "nrd"}

\* cas_table.recordcount()['RecordCount'].N.values[0]
recordcount(rows) == Len(rows)

\* cas_table.query('_type_ = "dcm" or _type_ = "nii" or _type_ = "nrd"')
query(rows) == SelectSeq(rows, LAMBDA type : type \in BIOMED_IMAGE_FORMATS)

\* mutant: the half is rounded up
half_rounded_up(image_count) == (image_count + 1) \div 2

\* int(image_count / 2): the quotient of the true division, truncated towards zero
half(image_count) == image_count \div 2

_get_image_type(cas_table) ==
    LET image_count == recordcount(cas_table)
        biomed_image_count == recordcount(query(cas_table))
    IN  IF biomed_image_count > half(image_count) THEN "BIOMED" ELSE "NATURAL"

\* the values of the _type_ column
ImageFormats == {"dcm", "nii", "nrd", "jpg"}

Tables == UNION {[1..n -> ImageFormats] : n \in 0..MaxRows}

\* ImageTable._get_image_type(cas_table)
GetImageType ==
    /\ \E cas_table \in Tables :
        /\ type_rows' = [kind |-> "CASTable", types |-> cas_table]
        /\ image_type' = _get_image_type(cas_table)
    /\ UNCHANGED other_than_imagetype

NextImageType == GetImageType

SpecImageType == Init /\ [][NextImageType]_vars

-----------------------------------------------------------------------------
(* CASThreadTuner.tune_thread_count; times are held in ten-thousandths of a second *)

\* the largest `iterations` argument
MaxIterations == 2

\* the members of Statistic, in the order of their values 0..4
Statistics == <<"MEAN", "MEDIAN", "MINIMUM", "MAXIMUM", "STDEV">>

StatisticSet == {Statistics[k] : k \in 1..Len(Statistics)}

RECURSIVE Sum(_)
Sum(values) == IF values = <<>> THEN 0 ELSE values[1] + Sum(Tail(values))

\* the k-th smallest element of a non-empty sequence
Smallest(values, k) ==
    CHOOSE v \in {values[i] : i \in 1..Len(values)} :
        /\ Cardinality({i \in 1..Len(values) : values[i] < v}) < k
        /\ Cardinality({i \in 1..Len(values) : values[i] <= v}) >= k

\* round(numerator / denominator, 4) in ten-thousandths: to the nearest, ties to even
RoundedQuotient(numerator, denominator) ==
    LET q == numerator \div denominator
        r == numerator % denominator
    IN  IF 2 * r < denominator THEN q
        ELSE IF 2 * r > denominator THEN q + 1
        ELSE IF q % 2 = 0 THEN q ELSE q + 1

np_mean(values) == RoundedQuotient(Sum(values), Len(values))

np_median(values) ==
    LET n == Len(values)
    IN  IF n % 2 = 1 THEN Smallest(values, (n + 1) \div 2)
        ELSE RoundedQuotient(Smallest(values, n \div 2) + Smallest(values, n \div 2 + 1), 2)

np_amin(values) == Smallest(values, 1)

np_amax(values) == Smallest(values, Len(values))

\* round(np.std(values), 4): the population standard deviation, to the nearest
np_std(values) ==
    LET n == Len(values)
        squares == Sum([i \in 1..n |-> values[i] * values[i]])
        scaled == n * squares - Sum(values) * Sum(values)
        spread == np_amax(values) - np_amin(values)
    IN  CHOOSE r \in 0..spread :
            /\ (2 * r - 1) * (2 * r - 1) * n * n <= 4 * scaled \/ r = 0
            /\ 4 * scaled < (2 * r + 1) * (2 * r + 1) * n * n

\* the statistics one cell of perf_array receives
cell_statistics(values) ==
    [statistic \in StatisticSet |->
        CASE statistic = "MEAN" -> np_mean(values)
          [] statistic = "MEDIAN" -> np_median(values)
          [] statistic = "MINIMUM" -> np_amin(values)
          [] statistic = "MAXIMUM" -> np_amax(values)
          [] statistic = "STDEV" -> np_std(values)]

\* the indices of perf_array[<statistic>]
cells(mode, controller_thread_range, worker_thread_range) ==
    IF mode = "SMP" THEN {<<c, 0>> : c \in 1..Len(controller_thread_range)}
    ELSE {<<c, w>> : c \in 1..Len(controller_thread_range),
                     w \in 1..Len(worker_thread_range)}

\* np.unravel_index(np.argmin(opt_array), opt_array.shape): the first least cell in row order
argmin(opt_array) ==
    LET least == {cell \in DOMAIN opt_array :
                    \A other \in DOMAIN opt_array : opt_array[cell] <= opt_array[other]}
    IN  CHOOSE cell \in least :
            \A other \in least :
                \/ cell[1] < other[1]
                \/ cell[1] = other[1] /\ cell[2] <= other[2]

\* CASThreadTunerResults.__init__
CASThreadTunerResults(values) ==
    [kind |-> "CASThreadTunerResults",
     _cas_server_mode |-> values.cas_server_mode,
     _controller_thread_range |-> values.controller_thread_range,
     _worker_thread_range |-> values.worker_thread_range,
     _objective_measure |-> values.objective_measure,
     _controller_optimal_thread_count |-> values.controller_optimal_thread_count,
     _worker_optimal_thread_count |-> values.worker_optimal_thread_count,
     _mean_exec_times |-> values.mean_exec_times,
     _median_exec_times |-> values.median_exec_times,
     _minimum_exec_times |-> values.minimum_exec_times,
     _maximum_exec_times |-> values.maximum_exec_times,
     _stdev_exec_times |-> values.stdev_exec_times]

\* mutant: the worker count of a single-node call is the default range's first count
smp_arguments_default_worker(c_thread_count) == <<c_thread_count, 4>>

\* the thread counts action_function receives on a single-node server
smp_arguments(c_thread_count) == <<c_thread_count, c_thread_count>>

\* s.serverstatus()['server']['nodes'].values[0] == 1
server_mode(nodes) == IF nodes = 1 THEN "SMP" ELSE "MPP"

TunerMode == server_mode(tuner_call.nodes)

\* the loop over controller_thread_range is exhausted
controller_done == thread_idx.c > Len(tuner_call.controller_thread_range)

\* the loop over worker_thread_range is exhausted
worker_done == TunerMode = "MPP" /\ thread_idx.w > Len(tuner_call.worker_thread_range)

\* the loop over range(iterations) is exhausted
iterations_done == thread_idx.iteration = tuner_call.iterations

(* Inputs of tune_thread_count *)

ControllerRanges == {<<>>, <<16>>, <<16, 32>>}
WorkerRanges == {<<>>, <<32>>, <<32, 64>>}
ElapsedTimes == {100, 200}

(* The steps of tune_thread_count *)

\* the call, up to and including s = setup_function() and the np.zeros of perf_array
TuneThreadCount ==
    /\ tuner_pc = "idle"
    /\ \E iterations \in 0..MaxIterations, controller_thread_range \in ControllerRanges,
          worker_thread_range \in WorkerRanges, objective_measure \in StatisticSet,
          nodes \in {1, 2} :
        /\ tuner_call' = [iterations |-> iterations,
                          controller_thread_range |-> controller_thread_range,
                          worker_thread_range |-> worker_thread_range,
                          objective_measure |-> objective_measure, nodes |-> nodes]
        /\ perf_array' = [statistic \in StatisticSet |->
                            [cell \in cells(server_mode(nodes), controller_thread_range,
                                            worker_thread_range) |-> 0]]
    /\ tuner_calls' = <<[function |-> "setup_function", args |-> <<>>]>>
    /\ thread_idx' = [c |-> 1, w |-> 1, iteration |-> 0]
    /\ perf_record' = <<>>
    /\ tuner_pc' = "loop"
    /\ UNCHANGED tuner_results
    /\ UNCHANGED other_than_tuner

\* perf = action_function(s, c_thread_count, ...); perf_record[iteration] = perf
CallAction ==
    /\ tuner_pc = "loop"
    /\ ~controller_done /\ ~worker_done /\ ~iterations_done
    /\ \E perf \in ElapsedTimes :
        LET c_thread_count == tuner_call.controller_thread_range[thread_idx.c]
            arguments ==
                IF TunerMode = "SMP" THEN smp_arguments(c_thread_count)
                ELSE <<c_thread_count, tuner_call.worker_thread_range[thread_idx.w]>>
        IN  /\ tuner_calls' = Append(tuner_calls,
                                     [function |-> "action_function", args |-> arguments])
            /\ perf_record' = Append(perf_record, perf)
    /\ thread_idx' = [thread_idx EXCEPT !.iteration = @ + 1]
    /\ UNCHANGED <<tuner_call, tuner_pc, perf_array, tuner_results>>
    /\ UNCHANGED other_than_tuner

\* the five statistics of a finished cell; np.amin of an empty perf_record raises
RecordStatistics ==
    /\ tuner_pc = "loop"
    /\ ~controller_done /\ ~worker_done /\ iterations_done
    /\ IF perf_record = <<>>
       THEN /\ tuner_pc' = "raised"
            /\ tuner_results' = Raise("ValueError")
            /\ UNCHANGED <<thread_idx, perf_record, perf_array>>
       ELSE LET cell == IF TunerMode = "SMP" THEN <<thread_idx.c, 0>>
                        ELSE <<thread_idx.c, thread_idx.w>>
                statistics == cell_statistics(perf_record)
            IN  /\ perf_array' = [statistic \in StatisticSet |->
                                    [perf_array[statistic] EXCEPT ![cell] = statistics[statistic]]]
                /\ thread_idx' = IF TunerMode = "SMP"
                                 THEN [thread_idx EXCEPT !.c = @ + 1, !.iteration = 0]
                                 ELSE [thread_idx EXCEPT !.w = @ + 1, !.iteration = 0]
                /\ perf_record' = <<>>
                /\ UNCHANGED <<tuner_pc, tuner_results>>
    /\ UNCHANGED <<tuner_call, tuner_calls>>
    /\ UNCHANGED other_than_tuner

\* the loop over worker_thread_range ends: the next controller thread count
NextController ==
    /\ tuner_pc = "loop"
    /\ ~controller_done /\ worker_done
    /\ thread_idx' = [c |-> thread_idx.c + 1, w |-> 1, iteration |-> 0]
    /\ UNCHANGED <<tuner_call, tuner_pc, perf_record, perf_array, tuner_calls, tuner_results>>
    /\ UNCHANGED other_than_tuner

\* teardown_function(s)
Teardown ==
    /\ tuner_pc = "loop"
    /\ controller_done
    /\ tuner_calls' = Append(tuner_calls, [function |-> "teardown_function", args |-> <<>>])
    /\ tuner_pc' = "torn down"
    /\ UNCHANGED <<tuner_call, thread_idx, perf_record, perf_array, tuner_results>>
    /\ UNCHANGED other_than_tuner

\* the optimum and the returned CASThreadTunerResults; np.argmin of an empty array raises
ReturnResults ==
    /\ tuner_pc = "torn down"
    /\ LET opt_array == perf_array[tuner_call.objective_measure]
       IN  IF DOMAIN opt_array = {}
           THEN /\ tuner_pc' = "raised"
                /\ tuner_results' = Raise("ValueError")
           ELSE LET opt_index == argmin(opt_array)
                IN  /\ tuner_pc' = "returned"
                    /\ tuner_results' = CASThreadTunerResults(
                        [cas_server_mode |-> TunerMode,
                         controller_thread_range |-> tuner_call.controller_thread_range,
                         worker_thread_range |-> tuner_call.worker_thread_range,
                         objective_measure |-> tuner_call.objective_measure,
                         controller_optimal_thread_count |->
                            PyInt(tuner_call.controller_thread_range[opt_index[1]]),
                         worker_optimal_thread_count |->
                            IF TunerMode = "MPP"
                            THEN PyInt(tuner_call.worker_thread_range[opt_index[2]])
                            ELSE None,
                         mean_exec_times |-> perf_array["MEAN"],
                         median_exec_times |-> perf_array["MEDIAN"],
                         minimum_exec_times |-> perf_array["MINIMUM"],
                         maximum_exec_times |-> perf_array["MAXIMUM"],
                         stdev_exec_times |-> perf_array["STDEV"]])
    /\ UNCHANGED <<tuner_call, thread_idx, perf_record, perf_array, tuner_calls>>
    /\ UNCHANGED other_than_tuner

NextTuner ==
    \/ TuneThreadCount
    \/ CallAction
    \/ RecordStatistics
    \/ NextController
    \/ Teardown
    \/ ReturnResults

SpecTuner == Init /\ [][NextTuner]_vars

-----------------------------------------------------------------------------
(* What the claims are stated with *)

\* the k-th int64 value (k = 0..3) of a wide image header
HeaderValue(buffer, k) == SignedBE(Native(SubSeq(buffer, 8 * k + 1, 8 * k + 8)))

\* the dtype code of a (channel count, element type) pair, as the specification lists them
SpecCode(channels, dtype) ==
    CASE channels = 1 /\ dtype = "uint8" -> 0
      [] channels = 3 /\ dtype = "uint8" -> 16
      [] channels = 1 /\ dtype = "float32" -> 5
      [] channels = 3 /\ dtype = "float32" -> 21
      [] channels = 1 /\ dtype = "float64" -> 6
      [] channels = 3 /\ dtype = "float64" -> 22

SupportedArray(A) ==
    /\ IsArray(A)
    /\ Len(A.shape) = 3
    /\ A.shape[3] \in {1, 3}
    /\ A.dtype \in {"uint8", "float32", "float64"}

Encoded == wide_origin = "convert_numpy_to_wide" /\ SupportedArray(numpy_image_array)
Decoded == pc = "convert_wide_to_numpy"

-----------------------------------------------------------------------------
\* C1: wide-image round trip. For every 3-axis array A whose last axis has length 1
\* or 3 and whose element type is uint8, float32 or float64, decoding the encoding
\* of A returns an array with the shape, the element type and the elements of A,
\* also when the first two axis lengths differ.
C1_RoundTrip ==
    (Decoded /\ Encoded) => output_array = numpy_image_array

C1_Witness ==
    /\ Decoded /\ Encoded
    /\ numpy_image_array.shape = <<1, 2, 3>>
    /\ numpy_image_array.dtype = "float32"
    /\ output_array = numpy_image_array

\* C2 as claimed: the header of the encoding of A of shape (d0, d1, c) is
\* [-1, d0, d1, dtype_code], the first-axis length at bytes 8-15.
C2_Original ==
    Encoded =>
        /\ wide_byte_buffer.kind = "bytes"
        /\ Len(wide_byte_buffer.val) >= 32
        /\ HeaderValue(wide_byte_buffer.val, 0) = -1
        /\ HeaderValue(wide_byte_buffer.val, 1) = numpy_image_array.shape[1]
        /\ HeaderValue(wide_byte_buffer.val, 2) = numpy_image_array.shape[2]
        /\ HeaderValue(wide_byte_buffer.val, 3) =
                SpecCode(numpy_image_array.shape[3], numpy_image_array.dtype)

\* C2, amended: for every supported array A of shape (d0, d1, c) the encoding is a
\* 32-byte header of four int64 values [-1, d1, d0, dtype_code] (the second-axis
\* length at bytes 8-15, the first-axis length at bytes 16-23) followed by the
\* row-major bytes of A unchanged, so the payload length is d0 * d1 * c * element width.
C2_EncodeLayout ==
    Encoded =>
        /\ wide_byte_buffer.kind = "bytes"
        /\ Len(wide_byte_buffer.val) =
                32 + numpy_image_array.shape[1] * numpy_image_array.shape[2]
                     * numpy_image_array.shape[3] * itemsize(numpy_image_array.dtype)
        /\ HeaderValue(wide_byte_buffer.val, 0) = -1
        /\ HeaderValue(wide_byte_buffer.val, 1) = numpy_image_array.shape[2]
        /\ HeaderValue(wide_byte_buffer.val, 2) = numpy_image_array.shape[1]
        /\ HeaderValue(wide_byte_buffer.val, 3) =
                SpecCode(numpy_image_array.shape[3], numpy_image_array.dtype)
        /\ SubSeq(wide_byte_buffer.val, 33, Len(wide_byte_buffer.val)) = numpy_image_array.data

C2_Witness ==
    /\ Encoded
    /\ pc = "convert_numpy_to_wide"
    /\ numpy_image_array.shape = <<2, 1, 3>>
    /\ numpy_image_array.dtype = "float64"
    /\ HeaderValue(wide_byte_buffer.val, 1) = 1
    /\ HeaderValue(wide_byte_buffer.val, 2) = 2
    /\ Len(wide_byte_buffer.val) = 32 + 48

\* the channel count and element type of a dtype code, as the specification lists them
SpecChannels(code) == IF code \in {0, 5, 6} THEN 1 ELSE 3
SpecDType(code) ==
    IF code \in {0, 16} THEN "uint8" ELSE IF code \in {5, 21} THEN "float32" ELSE "float64"

DecodedArray == Decoded /\ IsArray(output_array)

\* C3 as claimed: the decoded array has shape (dim0, dim1, channel_count), where dim0
\* is read from bytes 8-15 and dim1 from bytes 16-23.
C3_Original ==
    DecodedArray =>
        output_array.shape =
            <<HeaderValue(wide_byte_buffer.val, 1), HeaderValue(wide_byte_buffer.val, 2),
              SpecChannels(HeaderValue(wide_byte_buffer.val, 3))>>

\* C3, amended: convert_wide_to_numpy reads dim0 from bytes 8-15, dim1 from bytes
\* 16-23 and the dtype code from bytes 24-31, and returns the bytes from offset 32 on
\* reinterpreted in the resolved element type with shape (dim1, dim0, channel_count):
\* the value at bytes 16-23 is the first axis, the value at bytes 8-15 the second.
C3_DecodeShape ==
    DecodedArray =>
        /\ output_array.shape =
                <<HeaderValue(wide_byte_buffer.val, 2), HeaderValue(wide_byte_buffer.val, 1),
                  SpecChannels(HeaderValue(wide_byte_buffer.val, 3))>>
        /\ output_array.dtype = SpecDType(HeaderValue(wide_byte_buffer.val, 3))
        /\ output_array.data = SubSeq(wide_byte_buffer.val, 33, Len(wide_byte_buffer.val))

C3_Witness ==
    /\ DecodedArray
    /\ wide_origin = "received"
    /\ HeaderValue(wide_byte_buffer.val, 1) = 3
    /\ HeaderValue(wide_byte_buffer.val, 2) = 1
    /\ HeaderValue(wide_byte_buffer.val, 3) = 16
    /\ output_array.shape = <<1, 3, 3>>
    /\ output_array.dtype = "uint8"

\* C4: for each of the six dtype codes and all widths and heights, the buffer the
\* test helper builds (the int64 header [-1, height, width, code] followed by the
\* row-major bytes of an array B of shape (width, height, channels)) is decoded into
\* an array equal to B in shape and elements.
C4_HelperDecodes ==
    (Decoded /\ wide_origin = "create_numpy_array_and_wide_image") =>
        /\ output_array = numpy_image_array
        /\ HeaderValue(wide_byte_buffer.val, 1) = numpy_image_array.shape[2]
        /\ HeaderValue(wide_byte_buffer.val, 2) = numpy_image_array.shape[1]

C4_Witness ==
    /\ Decoded
    /\ wide_origin = "create_numpy_array_and_wide_image"
    /\ output_array = numpy_image_array
    /\ output_array.shape = <<1, 3, 1>>
    /\ output_array.dtype = "float64"
    /\ HeaderValue(wide_byte_buffer.val, 3) = 6

-----------------------------------------------------------------------------
(* The row decoder's claims *)

RowDecoded == pc = "get_image_array_from_row"

KnownTags == {"32S", "32F", "64F", "64U", "16S", "16U", "8U", "8S"}

\* the rule the dispatch table of the specification selects
PackedRule(myformat, channel_count) ==
    (myformat = "8U" /\ channel_count = 3) \/ myformat \notin KnownTags

\* the element width and element type the specification gives for a known tag
SpecWidth(tag) ==
    CASE tag \in {"32S", "32F"} -> 4
      [] tag \in {"64F", "64U"} -> 8
      [] tag \in {"16S", "16U"} -> 2
      [] tag \in {"8S", "8U"} -> 1

SpecElementType(tag) ==
    CASE tag = "32S" -> "int32"
      [] tag = "32F" -> "float32"
      [] tag = "64F" -> "float64"
      [] tag = "64U" -> "uint64"
      [] tag = "16S" -> "int16"
      [] tag = "16U" -> "uint16"
      [] tag = "8S" -> "int8"
      [] tag = "8U" -> "uint8"

\* the packed 3-channel result for a 2-axis resolution (r0, r1): every pixel's three
\* bytes in reversed order
ReversedPixels(buffer, r0, r1) ==
    [p \in 1..(r0 * r1 * 3) |-> buffer[((p - 1) \div 3) * 3 + (2 - ((p - 1) % 3)) + 1]]

C6_SingleChannelDecode ==
    (/\ RowDecoded
     /\ row_call.myformat \in KnownTags
     /\ row_call.channel_count = 1
     /\ Len(row_call.resolution) >= 1
     /\ Len(row_call.image_binary) =
            Product(row_call.resolution) * SpecWidth(row_call.myformat))
    =>
        imageArray = NdArray(SpecElementType(row_call.myformat), row_call.resolution,
                             row_call.image_binary)

C6_Witness ==
    /\ RowDecoded
    /\ row_call.myformat = "64U"
    /\ row_call.channel_count = 1
    /\ row_call.resolution = <<2>>
    /\ Len(row_call.image_binary) = 16
    /\ IsArray(imageArray)
    /\ imageArray.data # row_call.image_binary

\* C7: dispatch priority. The channel count changes the result only for tag '8U'.
\* For the seven other known tags the result for any channel count is the result for
\* channel count 1, of shape resolution; for '8U' the packed 3-channel reading is
\* taken exactly when the channel count is 3, and every other channel count gives the
\* single-channel uint8 array of shape resolution.
C7_DispatchPriority ==
    RowDecoded =>
        LET single == get_image_array_from_row(row_call.image_binary, row_call.dimension,
                                               row_call.resolution, row_call.myformat, 1,
                                               row_call.overflow_cast)
        IN  /\ (row_call.myformat \in KnownTags \ {"8U"}) =>
                    /\ imageArray = single
                    /\ IsArray(imageArray) => imageArray.shape = row_call.resolution
            /\ (row_call.myformat = "8U" /\ row_call.channel_count # 3) =>
                    /\ imageArray = single
                    /\ IsArray(imageArray) =>
                            /\ imageArray.shape = row_call.resolution
                            /\ imageArray.dtype = "uint8"
            /\ (row_call.myformat = "8U" /\ row_call.channel_count = 3
                    /\ IsArray(imageArray)) =>
                    /\ imageArray.shape = <<row_call.resolution[1], row_call.resolution[2], 3>>
                    /\ imageArray.data =
                            ReversedPixels(row_call.image_binary, row_call.resolution[1],
                                           row_call.resolution[2])

C7_Witness ==
    /\ RowDecoded
    /\ row_call.myformat = "8U"
    /\ row_call.channel_count = 2
    /\ row_call.resolution = <<1, 1>>
    /\ Len(row_call.image_binary) = 3
    /\ IsArray(imageArray)
    /\ imageArray.shape = <<1, 1>>

\* C8: fallback for an unrecognized or empty tag. For any channel count the decoder
\* reads only the first res[0]*res[1]*3 bytes, reshapes them to (res[0], res[1], 3)
\* and reverses the channel axis; this succeeds for every buffer of at least
\* res[0]*res[1]*3 bytes, extra trailing bytes included.
C8_FallbackReadsPrefix ==
    (/\ RowDecoded
     /\ row_call.myformat \notin KnownTags
     /\ Len(row_call.resolution) = 2
     /\ Len(row_call.image_binary) >= row_call.resolution[1] * row_call.resolution[2] * 3)
    =>
        /\ IsArray(imageArray)
        /\ imageArray.shape = <<row_call.resolution[1], row_call.resolution[2], 3>>
        /\ imageArray.data =
                ReversedPixels(row_call.image_binary, row_call.resolution[1],
                               row_call.resolution[2])

C8_Witness ==
    /\ RowDecoded
    /\ row_call.myformat = ""
    /\ row_call.resolution = <<1, 1>>
    /\ Len(row_call.image_binary) = 4
    /\ IsRaise(imageArray)

\* the bytes the selected rule requires for a resolution
Required(myformat, channel_count, resolution) ==
    IF PackedRule(myformat, channel_count) THEN resolution[1] * resolution[2] * 3
    ELSE Product(resolution) * SpecWidth(myformat)

\* C9: buffer underrun. For every tag and channel count, when the buffer holds fewer
\* bytes than the selected rule requires for the resolution, the row decoder fails
\* with an error and returns no array.
C9_Underrun ==
    (/\ RowDecoded
     /\ PackedRule(row_call.myformat, row_call.channel_count) => Len(row_call.resolution) >= 2
     /\ Len(row_call.image_binary) <
            Required(row_call.myformat, row_call.channel_count, row_call.resolution))
    => IsRaise(imageArray)

C9_Witness ==
    /\ RowDecoded
    /\ row_call.myformat = "16S"
    /\ row_call.resolution = <<3>>
    /\ Len(row_call.image_binary) = 4
    /\ imageArray = Raise("struct.error")

\* C10: resolution unpacking in get_image_array. The resolution is the first
\* `dimension` int64 values of resolutions[n] in reversed order: for a packed sequence
\* (a_1, ..., a_d) and a single-channel tag the returned array has shape (a_d, ..., a_1).
FetchedRow == pc = "get_image_array" /\ fetched.n \in 0..1

Packed(k) == HeaderValue(fetched.resolutions[fetched.n + 1], k - 1)

C10_ResolutionReversed ==
    (/\ FetchedRow
     /\ fetched.formats[fetched.n + 1] \in KnownTags
     /\ ~(fetched.formats[fetched.n + 1] = "8U" /\ fetched.channel_count = 3)
     /\ fetched.dimensions[fetched.n + 1] >= 1
     /\ Len(fetched.resolutions[fetched.n + 1]) >= 8 * fetched.dimensions[fetched.n + 1])
    =>
        LET d == fetched.dimensions[fetched.n + 1]
            shape == [k \in 1..d |-> Packed(d + 1 - k)]
        IN  /\ IsArray(medicalImageArray) => medicalImageArray.shape = shape
            /\ (Len(fetched.image_binaries[fetched.n + 1]) =
                    Product(shape) * SpecWidth(fetched.formats[fetched.n + 1]))
                => /\ IsArray(medicalImageArray)
                   /\ medicalImageArray.data = fetched.image_binaries[fetched.n + 1]

C10_Witness ==
    /\ FetchedRow
    /\ fetched.formats[fetched.n + 1] = "16S"
    /\ fetched.dimensions[fetched.n + 1] = 2
    /\ Len(fetched.resolutions[fetched.n + 1]) = 16
    /\ Packed(1) = 1
    /\ Packed(2) = 3
    /\ IsArray(medicalImageArray)
    /\ medicalImageArray.shape = <<3, 1>>

\* rows that may stand at an index other than n
OtherRows ==
    {[binary |-> <<>>, dimension |-> 2, resolution |-> <<>>, format |-> "32F"],
     [binary |-> <<1, 2, 3>>, dimension |-> 1, resolution |-> int64_tobytes(<<3>>), format |-> ""],
     [binary |-> <<9, 9>>, dimension |-> 3, resolution |-> int64_tobytes(<<2, 1>>), format |-> "8U"]}

\* the fetched columns with the entry at the index other than n replaced
FetchedWithOther(column, value) == [column EXCEPT ![2 - fetched.n] = value]

\* C11: batch fetch delegates to the row decoder on row n only. The result of
\* get_image_array equals the row decoder applied to binaries[n], dimensions[n], the
\* unpacked and reversed resolutions[n], formats[n] and the channel count, and
\* changing the entries at an index other than n in the four sequences does not
\* change it.
C11_DelegatesRowN ==
    (/\ FetchedRow
     /\ Len(fetched.resolutions[fetched.n + 1]) >= 8 * fetched.dimensions[fetched.n + 1])
    =>
        LET d == fetched.dimensions[fetched.n + 1]
            resolution == [k \in 1..d |-> Packed(d + 1 - k)]
        IN  /\ medicalImageArray =
                    get_image_array_from_row(fetched.image_binaries[fetched.n + 1], d, resolution,
                                             fetched.formats[fetched.n + 1],
                                             fetched.channel_count, Zeros(64))
            /\ \A other \in OtherRows :
                    medicalImageArray =
                        get_image_array(FetchedWithOther(fetched.image_binaries, other.binary),
                                        FetchedWithOther(fetched.dimensions, other.dimension),
                                        FetchedWithOther(fetched.resolutions, other.resolution),
                                        FetchedWithOther(fetched.formats, other.format),
                                        fetched.n, fetched.channel_count, Zeros(64))

C11_Witness ==
    /\ FetchedRow
    /\ fetched.n = 1
    /\ fetched.formats = <<"8U", "64F">>
    /\ fetched.dimensions = <<1, 1>>
    /\ IsArray(medicalImageArray)
    /\ medicalImageArray.dtype = "float64"
    /\ medicalImageArray.shape = <<2>>

-----------------------------------------------------------------------------
(* The dtype code tables *)

SpecCodes == {0, 5, 6, 16, 21, 22}
SpecPairs == {<<c, t>> : c \in {1, 3}, t \in {"uint8", "float32", "float64"}}

EncodeCalled == wide_origin = "convert_numpy_to_wide" /\ IsArray(numpy_image_array)

\* C12: the encoder's (channel count, element type) -> code table and the decoder's
\* code -> (channel count, element type) table are inverse bijections over exactly
\* six pairs: (1, uint8) <-> 0, (3, uint8) <-> 16, (1, float32) <-> 5,
\* (3, float32) <-> 21, (1, float64) <-> 6, (3, float64) <-> 22.
C12_TablesInverse ==
    /\ (EncodeCalled /\ wide_byte_buffer.kind = "bytes") =>
            LET pair == <<numpy_image_array.shape[3], numpy_image_array.dtype>>
                code == HeaderValue(wide_byte_buffer.val, 3)
            IN  /\ pair \in SpecPairs
                /\ code = SpecCode(pair[1], pair[2])
                /\ assign_channels_and_type(code) = pair
    /\ DecodedArray =>
            LET code == HeaderValue(wide_byte_buffer.val, 3)
                pair == <<output_array.shape[3], output_array.dtype>>
            IN  /\ code \in SpecCodes
                /\ pair = <<SpecChannels(code), SpecDType(code)>>
                /\ assign_data_type(pair[1], pair[2]) = <<code>>

C12_Witness ==
    /\ DecodedArray
    /\ wide_origin = "received"
    /\ HeaderValue(wide_byte_buffer.val, 3) = 22
    /\ output_array.shape = <<1, 1, 3>>
    /\ output_array.dtype = "float64"

\* C13: encode rejects unsupported arrays. convert_numpy_to_wide applied to an array
\* whose (last-axis length, element type) pair is not one of the six supported pairs
\* (int16 elements, or 2 or 4 channels) fails with an error and returns no byte buffer.
C13_EncodeRejects ==
    (/\ EncodeCalled
     /\ <<numpy_image_array.shape[3], numpy_image_array.dtype>> \notin SpecPairs)
    => IsRaise(wide_byte_buffer)

C13_Witness ==
    /\ EncodeCalled
    /\ numpy_image_array.shape = <<1, 2, 4>>
    /\ numpy_image_array.dtype = "float32"
    /\ wide_byte_buffer = Raise("UnboundLocalError")

\* C14: decode rejects unknown codes. convert_wide_to_numpy applied to a buffer whose
\* int64 at bytes 24-31 is not one of 0, 5, 6, 16, 21, 22 fails with an error and
\* returns no array, whatever the payload is.
C14_DecodeRejects ==
    (/\ Decoded
     /\ Len(wide_byte_buffer.val) >= 32
     /\ HeaderValue(wide_byte_buffer.val, 3) \notin SpecCodes)
    => IsRaise(output_array)

C14_Witness ==
    /\ Decoded
    /\ wide_origin = "received"
    /\ HeaderValue(wide_byte_buffer.val, 1) = 1
    /\ HeaderValue(wide_byte_buffer.val, 2) = 1
    /\ HeaderValue(wide_byte_buffer.val, 3) = 1
    /\ Len(wide_byte_buffer.val) = 33
    /\ output_array = Raise("UnboundLocalError")

-----------------------------------------------------------------------------
(* Geometry *)

GeometryFetched == pc = "fetch_geometry_info"

\* C15: geometry absence. When the table lacks the position, orientation and
\* spacing columns (all of them, or any one of them), fetch_geometry_info returns
\* ((), (), ()) without fetching any row and without raising, for every n and qry.
C15_GeometryAbsent ==
    (/\ GeometryFetched
     /\ ~({"_position_", "_orientation_", "_spacing_"} \subseteq imdata.columns))
    =>
        /\ geometry_info = [kind |-> "tuple", pos |-> <<>>, ori |-> <<>>, spa |-> <<>>]
        /\ fetches = 0

C15_Witness ==
    /\ GeometryFetched
    /\ imdata.columns = {"_dimension_"}
    /\ Len(imdata.rows) = 1
    /\ geometry_call.n = 1
    /\ geometry_call.qry # ""
    /\ geometry_info = [kind |-> "tuple", pos |-> <<>>, ori |-> <<>>, spa |-> <<>>]
    /\ fetches = 0

-----------------------------------------------------------------------------
(* Concurrency *)

\* C16: concurrent codec calls do not interfere. Under any interleaving of concurrent
\* row-decode, wide-encode and wide-decode calls on independent inputs, each call
\* returns the result it returns when it runs alone, and no call modifies its input
\* buffer or a state shared with another call.
C16_NoInterference ==
    /\ [](\A c \in Calls :
            call_state[c] = "returned" => results[c] = Execute(CallFunction[c], inputs[c]))
    /\ [][\A c \in Calls :
            /\ call_state[c] # "idle" => inputs'[c] = inputs[c]
            /\ call_state[c] = "returned" => results'[c] = results[c]]_vars

C16_Witness ==
    /\ \A c \in Calls : call_state[c] = "returned"
    /\ IsArray(results[1]) /\ IsRaise(results[2])
    /\ results[3].kind = "bytes" /\ IsArray(results[4])
    /\ frames[4] = results[4]

-----------------------------------------------------------------------------
(* ImageTable column resolution *)

Constructed == pc \in {"ImageTable", "has_decoded_images"}

\* a name was given for the attribute: a non-empty string
NameGiven(a) == column_names[a].kind = "str" /\ column_names[a].val # ""

\* the table has a column of that name, compared case-insensitively
ColumnExists(name) == \E c \in DOMAIN columninfo : lower(c) = lower(name)

\* the table has a column of that name with a data type supported for the attribute
ColumnSupported(a, name) ==
    \E c \in DOMAIN columninfo :
        lower(c) = lower(name) /\ lower(columninfo[c]) \in ValidColumnDatatypes(a)

ResolvedToName(a) ==
    Attribute(image_table, a).kind = "str" /\ Attribute(image_table, a).val # ""

\* C17 as claimed: construction raises exactly when a given name is absent from the
\* table or has an unsupported data type; otherwise each attribute is the given
\* name, or the default name when no name is given and the default column exists,
\* or None; has_decoded_images() is true exactly when dimension, resolution and
\* imageFormat all resolved to a name.
C17_Original ==
    Constructed =>
        /\ IsRaise(image_table) <=>
                \E a \in AttributeSet :
                    column_names[a].kind = "str" /\ ~ColumnSupported(a, column_names[a].val)
        /\ ~IsRaise(image_table) =>
                \A a \in AttributeSet :
                    Attribute(image_table, a) =
                        IF column_names[a].kind = "str" THEN column_names[a]
                        ELSE IF ColumnExists(DefaultColumn(a)) THEN Str(DefaultColumn(a))
                        ELSE None
        /\ decoded # None =>
                (decoded.val <=> \A a \in {"dimension", "resolution", "imageFormat"} :
                                    ResolvedToName(a))

\* C17, amended: a name counts as given when it is a non-empty string. Construction
\* raises exactly when a given name is absent from the table or has an unsupported
\* data type, or when no name is given and the default column exists with an
\* unsupported data type. Otherwise each attribute is the given name, or the default
\* name when no name is given and the default column exists, or the value passed
\* (None, or the empty string) when it does not. has_decoded_images() is true
\* exactly when dimension, resolution and imageFormat are all not None.
C17_ColumnResolution ==
    Constructed =>
        /\ IsRaise(image_table) <=>
                \E a \in AttributeSet :
                    \/ NameGiven(a) /\ ~ColumnSupported(a, column_names[a].val)
                    \/ /\ ~NameGiven(a)
                       /\ ColumnExists(DefaultColumn(a))
                       /\ ~ColumnSupported(a, DefaultColumn(a))
        /\ ~IsRaise(image_table) =>
                \A a \in AttributeSet :
                    Attribute(image_table, a) =
                        IF NameGiven(a) THEN column_names[a]
                        ELSE IF ColumnExists(DefaultColumn(a)) THEN Str(DefaultColumn(a))
                        ELSE column_names[a]
        /\ decoded # None =>
                (decoded.val <=> \A a \in {"dimension", "resolution", "imageFormat"} :
                                    Attribute(image_table, a) # None)

C17_Witness ==
    /\ pc = "ImageTable"
    /\ column_names["dimension"] = None
    /\ column_names["label"] = Str("new_label_")
    /\ "NEW_LABEL_" \in DOMAIN columninfo
    /\ "_dimension_" \in DOMAIN columninfo
    /\ columninfo["_dimension_"] = "double"
    /\ columninfo["NEW_LABEL_"] = "varchar"
    /\ image_table = Raise("Exception")

-----------------------------------------------------------------------------
(* Credentials *)

CredentialsConstructed == pc = "Credentials"

\* the arguments supply a token, or a user name and a password
ArgumentsSupply ==
    \/ Truthy(credentials_call.token)
    \/ Truthy(credentials_call.username) /\ Truthy(credentials_call.password)

\* the number of comma-separated fields of a line
FieldCount(line) == Cardinality({i \in 1..Len(line) : line[i] = ","}) + 1

\* the characters of a line that are not blank, per field
Blank(line, from, to) == \A i \in from..to : line[i] \in {" ", "\n", "\t"}

\* the first line of a file supplies a token (one field, not blank) or a user name
\* and a password (two fields, neither blank)
FileSupplies(file) ==
    LET line == file.line
        commas == {i \in 1..Len(line) : line[i] = ","}
    IN  \/ commas = {} /\ ~Blank(line, 1, Len(line))
        \/ \E at \in commas :
                commas = {at} /\ ~Blank(line, 1, at - 1) /\ ~Blank(line, at + 1, Len(line))

FileRefused(file) ==
    \/ (file.mode \div 32) % 2 = 1 \/ (file.mode \div 16) % 2 = 1
    \/ (file.mode \div 4) % 2 = 1 \/ (file.mode \div 2) % 2 = 1
    \/ FieldCount(file.line) > 2

HasSecrets(object) ==
    \/ Truthy(object.token)
    \/ Truthy(object.username) /\ Truthy(object.password)

\* the auth file of a call: the one the caller names, else ~/.annotation_auth
TheAuthFile ==
    IF Truthy(credentials_call.auth_file) THEN auth_files.named ELSE auth_files.default

\* C18 as claimed: a constructed Credentials object has a non-empty token or a
\* non-empty user name and password; construction raises when neither the arguments
\* nor the auth file supply them, or when the auth file is readable or writable by
\* group or others, or when its first line has more than two fields.
C18_Original ==
    CredentialsConstructed =>
        /\ ~IsRaise(credentials) => HasSecrets(credentials)
        /\ (TheAuthFile.kind = "file" /\ FileRefused(TheAuthFile)) => IsRaise(credentials)
        /\ (~ArgumentsSupply /\ ~(TheAuthFile.kind = "file" /\ FileSupplies(TheAuthFile)))
                => IsRaise(credentials)

\* the file the constructor reads when the arguments do not supply the secrets: the
\* named one, or ~/.annotation_auth when no user name, password or auth file is given
\* and that file exists
FileRead ==
    IF Truthy(credentials_call.auth_file) THEN auth_files.named
    ELSE IF ~Truthy(credentials_call.username) /\ ~Truthy(credentials_call.password)
         THEN auth_files.default
    ELSE Absent

\* C18, amended: a constructed Credentials object has a non-empty token or a
\* non-empty user name and password. When the arguments supply a token or a user
\* name and a password, no auth file is read and construction succeeds. Otherwise
\* construction raises when the file it reads (the named one, or the default one when
\* no user name, password or auth file is given) is missing, is readable or writable
\* by group or others, has a first line of more than two comma-separated fields, or
\* does not supply a token or a user name and a password.
C18_CredentialsComplete ==
    CredentialsConstructed =>
        /\ ~IsRaise(credentials) => HasSecrets(credentials)
        /\ ArgumentsSupply =>
                credentials = [kind |-> "Credentials", username |-> credentials_call.username,
                               password |-> credentials_call.password,
                               token |-> credentials_call.token]
        /\ ~ArgumentsSupply =>
                (IsRaise(credentials) <=>
                    \/ FileRead.kind # "file"
                    \/ FileRefused(FileRead)
                    \/ ~FileSupplies(FileRead))

C18_Witness ==
    /\ CredentialsConstructed
    /\ ~ArgumentsSupply
    /\ credentials_call.username = Text(<<"s">>)
    /\ auth_files.named.kind = "file"
    /\ auth_files.named.mode = 416
    /\ auth_files.named.line = <<"t", "\n">>
    /\ credentials = Raise("Exception")

-----------------------------------------------------------------------------
(* CVATProject: the task list *)

\* the post_images calls that completed without raising, in call order
Completed == SelectSeq(posts, LAMBDA post : post.raised = None)

\* the call that ran last raised
LastPostRaised == posts' # posts /\ posts'[Len(posts')].raised # None

\* C19: after any sequence of post_images calls get_tasks() holds exactly one task per
\* call that completed without raising, in call order (the k-th task is the task the
\* server created for the k-th completed call, on that call's image table), and a call
\* that raises leaves the task list as it was
C19_OneTaskPerCompletedCall ==
    /\ [](project.kind = "CVATProject" =>
            /\ Len(get_tasks(project)) = Len(Completed)
            /\ \A k \in 1..Len(Completed) :
                /\ get_tasks(project)[k]._image_table_name
                        = Str(Completed[k].image_table_name)
                /\ get_tasks(project)[k]._task_id = Completed[k].task_id
                /\ get_tasks(project)[k]._task_id # None)
    /\ [][LastPostRaised => get_tasks(project') = get_tasks(project)]_vars

\* three calls, the second of which raised after the server created its task: the list
\* holds the tasks of the first and the third
C19_Witness ==
    /\ project.kind = "CVATProject"
    /\ Len(posts) = 3
    /\ posts[1].raised = None
    /\ posts[2].raised # None /\ posts[2].task_id # None
    /\ posts[3].raised = None
    /\ posts[1].image_table_name # posts[3].image_table_name
    /\ Len(get_tasks(project)) = 2

-----------------------------------------------------------------------------
(* CVATProject: resume *)

\* the tasks of the saved JSON 'tasks' entry, deserialized
SavedTasks ==
    LET task_dicts == get(json_loads(resume_call.saved.project_json), "tasks").items
    IN  [k \in 1..Len(task_dicts) |-> CVATTask_from_dict(task_dicts[k])]

\* C20: resume restores a project whose get_tasks() are the tasks deserialized from the
\* saved JSON 'tasks' entry; for each of them the saved image table is loaded and
\* assigned to task.image_table.table, and task.project is the resumed project
C20_ResumeRestoresTasks ==
    resume_call # None =>
        /\ resumed.val.kind = "CVATProject"
        /\ Len(get_tasks(resumed.val)) = Len(SavedTasks)
        /\ \A k \in 1..Len(SavedTasks) :
            LET task == get_tasks(resumed.val)[k]
                name == SavedTasks[k]._image_table_name.val
            IN  /\ task._task_id = SavedTasks[k]._task_id
                /\ task._image_table_name = SavedTasks[k]._image_table_name
                /\ task._image_table.columns = SavedTasks[k]._image_table.columns
                /\ name \in resumed.loaded
                /\ task._image_table.table = CASTable(name, resume_call.saved.rows[name])
                /\ task._project = Ref(resumed.val)

-----------------------------------------------------------------------------
(* Project.labels *)

\* C21: assigning a list to project.labels ends without an exception, and reading
\* project.labels afterwards gives the assigned list
C21_LabelsSetThenGet ==
    labels_call # None => labels_read = labels_call

-----------------------------------------------------------------------------
(* ImageTable._get_image_type *)

TypeRows == type_rows.types

BiomedRows == Cardinality({k \in 1..Len(TypeRows) : TypeRows[k] \in {"dcm", "nii", "nrd"}})

\* C22: _get_image_type returns BIOMED exactly when the rows whose _type_ is dcm, nii or
\* nrd are strictly more than the remaining rows, and NATURAL otherwise (a tie and the
\* empty table included), whether the row count is odd or even
C22_BiomedMajority ==
    type_rows # None =>
        /\ image_type \in {"BIOMED", "NATURAL"}
        /\ image_type = "BIOMED" <=> BiomedRows > Len(TypeRows) - BiomedRows

\* an odd row count with a majority of one
C22_Witness ==
    /\ type_rows # None
    /\ Len(TypeRows) = 3
    /\ BiomedRows = 2
    /\ image_type = "BIOMED"

-----------------------------------------------------------------------------
(* CASThreadTuner: the order of the calls *)

\* the action calls the claim lists: `iterations` calls per controller thread count in
\* range order, worker argument equal to the controller count, on a single node;
\* `iterations` calls per (controller, worker) pair in nested range order otherwise
ExpectedActionCalls ==
    LET controllers == tuner_call.controller_thread_range
        workers == tuner_call.worker_thread_range
        n == tuner_call.iterations
    IN  IF tuner_call.nodes = 1
        THEN [k \in 1..(Len(controllers) * n) |->
                LET count == controllers[((k - 1) \div n) + 1]
                IN  [function |-> "action_function", args |-> <<count, count>>]]
        ELSE [k \in 1..(Len(controllers) * Len(workers) * n) |->
                LET pair == (k - 1) \div n
                IN  [function |-> "action_function",
                     args |-> <<controllers[(pair \div Len(workers)) + 1],
                                workers[(pair % Len(workers)) + 1]>>]]

ExpectedCalls ==
    <<[function |-> "setup_function", args |-> <<>>]>> \o ExpectedActionCalls
        \o <<[function |-> "teardown_function", args |-> <<>>]>>

\* C23: setup_function is called once before any action call, action_function
\* `iterations` times per controller count (single node, worker argument equal to the
\* controller count) or per (controller, worker) pair in nested range order (several
\* nodes), teardown_function once after the last action call and before the result is
\* returned: the calls made so far are always a prefix of that sequence, and all of it
\* once the tuner has torn down or returned
C23_CallOrder ==
    tuner_pc # "idle" =>
        /\ Len(tuner_calls) <= Len(ExpectedCalls)
        /\ tuner_calls = SubSeq(ExpectedCalls, 1, Len(tuner_calls))
        /\ tuner_pc \in {"torn down", "returned"} => tuner_calls = ExpectedCalls
        /\ tuner_results # None => tuner_pc \in {"returned", "raised"}

\* a tuner that returned on a single-node server after two iterations for each of two
\* controller thread counts
C23_Witness ==
    /\ tuner_pc = "returned"
    /\ tuner_call.nodes = 1
    /\ tuner_call.iterations = 2
    /\ Len(tuner_call.controller_thread_range) = 2
    /\ Len(tuner_calls) = 6
    /\ tuner_results.kind = "CASThreadTunerResults"

-----------------------------------------------------------------------------
(* cvpy.image.Image.mask_image *)

\* the columns of a loaded mask table: encoded or decoded images, under the default
\* names, under names the caller gives, or under the names mask_image renames to
MaskColumn(naming, column) ==
    CASE naming = "default" -> DefaultColumn(column)
      [] naming = "given" -> GivenName(column)
      [] naming = "seg" ->
            CASE column = "image" -> "seg"
              [] column = "dimension" -> "dim"
              [] column = "resolution" -> "res"
              [] column = "imageFormat" -> "form"
              [] OTHER -> DefaultColumn(column)

MaskNamings == {"default", "given", "seg"}

MaskedAttributes(decoded_) ==
    IF decoded_ THEN {"image", "dimension", "resolution", "imageFormat", "id"}
    ELSE {"image", "id"}

MaskTable(naming, decoded_) ==
    [c \in {MaskColumn(naming, a) : a \in MaskedAttributes(decoded_)} |->
        LET a == CHOOSE x \in MaskedAttributes(decoded_) : MaskColumn(naming, x) = c
        IN  CHOOSE t \in ValidColumnDatatypes(a) : TRUE]

\* the names the caller hands to ImageTable() for such a table
MaskNames(naming, decoded_) ==
    [a \in AttributeSet |->
        IF naming = "default" \/ a \notin MaskedAttributes(decoded_) \/ a = "id" THEN None
        ELSE Str(MaskColumn(naming, a))]

\* alter_columns: the renames mask_image asks of the server
alter_columns(mask_) ==
    IF has_decoded_images(mask_)
    THEN <<[name |-> Attribute(mask_, "image"), rename |-> "seg"],
           [name |-> Attribute(mask_, "dimension"), rename |-> "dim"],
           [name |-> Attribute(mask_, "resolution"), rename |-> "res"],
           [name |-> Attribute(mask_, "imageFormat"), rename |-> "form"]>>
    ELSE <<[name |-> Attribute(mask_, "image"), rename |-> "seg"]>>

\* conn.table.altertable(name=mask.table, columns=alter_columns) on the server
altertable(columns_, alter) ==
    LET renamed(c) ==
            IF \E k \in 1..Len(alter) : alter[k].name = Str(c)
            THEN alter[CHOOSE k \in 1..Len(alter) : alter[k].name = Str(c)].rename
            ELSE c
    IN  [n \in {renamed(c) : c \in DOMAIN columns_} |->
            columns_[CHOOSE c \in DOMAIN columns_ : renamed(c) = n]]

\* the assignments rename_columns makes, in order
renames(mask_) ==
    IF has_decoded_images(mask_)
    THEN <<<<"image", "seg">>, <<"dimension", "dim">>, <<"resolution", "res">>,
           <<"imageFormat", "form">>>>
    ELSE <<<<"image", "seg">>>>

\* mask.<column> = value: the property setter, validate_set_column on the lookup the
\* object holds
set_column(mask_, lookup, column, value) ==
    LET set == validate_set_column(lookup, Str(value), DefaultColumn(column),
                                   ValidColumnDatatypes(column))
        k == CHOOSE i \in 1..Len(ColumnAttributes) : ColumnAttributes[i] = column
    IN  IF IsRaise(set) THEN [mask |-> mask_, raised |-> set]
        ELSE [mask |-> [mask_ EXCEPT !.columns[k] = set], raised |-> None]

\* rename_columns(): the assignments run in order; the first exception leaves it
RECURSIVE rename_from(_, _, _, _)
rename_from(mask_, lookup, todo, k) ==
    IF k > Len(todo) THEN [mask |-> mask_, raised |-> None]
    ELSE LET step == set_column(mask_, lookup, todo[k][1], todo[k][2])
         IN  IF step.raised # None THEN step
             ELSE rename_from(step.mask, lookup, todo, k + 1)

rename_columns(mask_, lookup) == rename_from(mask_, lookup, renames(mask_), 1)

\* image.mask_image(image, mask, casout, decode, copy_vars) is called on a mask
\* ImageTable the caller built from a loaded table
MaskImage ==
    /\ mask_pc = "idle"
    /\ \E naming \in MaskNamings, decoded_ \in BOOLEAN, decode \in BOOLEAN,
          copy_vars \in {None, List(<<Str("_path_")>>)}, image_decoded \in BOOLEAN :
        /\ mask_call' = [naming |-> naming, decode |-> decode, copy_vars |-> copy_vars,
                         image |-> MaskTable("default", image_decoded)]
        /\ mask' = ImageTable(MaskTable(naming, decoded_), MaskNames(naming, decoded_))
        /\ mask_lookup' = column_dtype_lookup(MaskTable(naming, decoded_))
        /\ mask_columns' = MaskTable(naming, decoded_)
    /\ mask_steps' = <<>>
    /\ mask_pc' = "altertable"
    /\ UNCHANGED other_than_mask

\* conn.table.altertable(name=mask.table, columns=alter_columns)
AlterTable ==
    /\ mask_pc = "altertable"
    /\ mask_columns' = altertable(mask_columns, alter_columns(mask))
    /\ mask_steps' = Append(mask_steps, "altertable")
    /\ mask_pc' = "execdirect"
    /\ UNCHANGED <<mask_call, mask, mask_lookup>>
    /\ UNCHANGED other_than_mask

\* conn.CASTable("_images_to_mask_", replace=True); conn.fedsql.execdirect(fed_sql_str)
ExecDirect ==
    /\ mask_pc = "execdirect"
    /\ mask_steps' = Append(mask_steps, "create _images_to_mask_")
    /\ mask_pc' = "processimages"
    /\ UNCHANGED <<mask_call, mask, mask_lookup, mask_columns>>
    /\ UNCHANGED other_than_mask

\* conn.image.processimages(table=_images_to_mask_, steps=[BINARY_OPERATION], ...)
ProcessImages ==
    /\ mask_pc = "processimages"
    /\ mask_steps' = Append(mask_steps, "processimages")
    /\ mask_pc' = "dropTable"
    /\ UNCHANGED <<mask_call, mask, mask_lookup, mask_columns>>
    /\ UNCHANGED other_than_mask

\* conn.table.dropTable(_images_to_mask_)
DropTable ==
    /\ mask_pc = "dropTable"
    /\ mask_steps' = Append(mask_steps, "drop _images_to_mask_")
    /\ mask_pc' = "rename_columns"
    /\ UNCHANGED <<mask_call, mask, mask_lookup, mask_columns>>
    /\ UNCHANGED other_than_mask

\* rename_columns(), and mask_image returns or the exception leaves it
RenameColumns ==
    /\ mask_pc = "rename_columns"
    /\ LET renamed == rename_columns(mask, mask_lookup)
       IN  /\ mask' = renamed.mask
           /\ mask_pc' = IF renamed.raised = None THEN "returned" ELSE "raised"
    /\ mask_steps' = Append(mask_steps, "rename_columns")
    /\ UNCHANGED <<mask_call, mask_lookup, mask_columns>>
    /\ UNCHANGED other_than_mask

NextMask ==
    MaskImage \/ AlterTable \/ ExecDirect \/ ProcessImages \/ DropTable \/ RenameColumns

SpecMask == Init /\ [][NextMask]_vars

\* the order of the steps of mask_image
MaskSteps ==
    <<"altertable", "create _images_to_mask_", "processimages", "drop _images_to_mask_",
      "rename_columns">>

\* C24: a call of mask_image makes its steps in the order altertable, create
\* _images_to_mask_, processimages, drop _images_to_mask_, update of the mask object;
\* when the call is over mask.image is 'seg' (and dimension, resolution, imageFormat
\* of a decoded mask are 'dim', 'res', 'form'), the columns the server table now has
C24_MaskRenamed ==
    /\ mask_steps = SubSeq(MaskSteps, 1, Len(mask_steps))
    /\ mask_pc \in {"returned", "raised"} =>
        /\ mask_steps = MaskSteps
        /\ Attribute(mask, "image") = Str("seg")
        /\ "seg" \in DOMAIN mask_columns
        /\ has_decoded_images(mask) =>
            /\ Attribute(mask, "dimension") = Str("dim")
            /\ Attribute(mask, "resolution") = Str("res")
            /\ Attribute(mask, "imageFormat") = Str("form")
            /\ {"dim", "res", "form"} \subseteq DOMAIN mask_columns

-----------------------------------------------------------------------------
(* cvpy.annotation.cvat.CVATAuthenticator *)

MAX_ATTEMPTS == 3

OK == 200

\* what the user may enter at 'Enter CVAT Application URL: '
EnteredURLs == {"http://cvat:8080", "cvat:8080/x", "http://", "//cvat", "", "http://[cvat"}

\* urllib.parse.urlparse(cvat_url): scheme and netloc of the result, or ValueError
urlparse(url) ==
    CASE url = "http://cvat:8080" -> [kind |-> "ParseResult", scheme |-> "http", netloc |-> "cvat:8080"]
      [] url = "cvat:8080/x" -> [kind |-> "ParseResult", scheme |-> "cvat", netloc |-> ""]
      [] url = "http://" -> [kind |-> "ParseResult", scheme |-> "http", netloc |-> ""]
      [] url = "//cvat" -> [kind |-> "ParseResult", scheme |-> "", netloc |-> "cvat"]
      [] url = "" -> [kind |-> "ParseResult", scheme |-> "", netloc |-> ""]
      [] url = "http://[cvat" -> Raise("ValueError")

\* what POST {url}/api/auth/login may come to: no connection, or a response with a
\* status code and a body
LoginAnswers ==
    {[kind |-> "ConnectionError"],
     [kind |-> "Response", status_code |-> OK, body |-> "key"],
     [kind |-> "Response", status_code |-> OK, body |-> "detail"],
     [kind |-> "Response", status_code |-> 400, body |-> "non_field_errors"],
     [kind |-> "Response", status_code |-> 400, body |-> "detail"],
     [kind |-> "Response", status_code |-> 502, body |-> "html"]}

\* CVATAuthenticator.authenticate(url, credentials): (success, message, response), or
\* the exception of requests.post or json.loads
authenticate(url, answer) ==
    IF answer.kind = "ConnectionError" THEN Raise("ConnectionError")
    ELSE IF answer.status_code # OK
         THEN IF answer.body = "html" THEN Raise("JSONDecodeError")
              ELSE [kind |-> "tuple", success |-> FALSE,
                    message |-> Str(answer.body), response |-> answer]
         ELSE [kind |-> "tuple", success |-> TRUE, message |-> None, response |-> answer]

\* mutant: one attempt more
loop_continues_once_more(success_, attempt_) == ~success_ /\ attempt_ <= MAX_ATTEMPTS

\* while not success and attempt < CVATAuthenticator.MAX_ATTEMPTS
loop_continues(success_, attempt_) == ~success_ /\ attempt_ < MAX_ATTEMPTS

\* CVATAuthenticator.generate_cvat_token() is called
GenerateCvatToken ==
    /\ auth_pc = "idle"
    /\ \E file \in {None, Str("old token")} :
        /\ auth_call' = [file |-> file]
        /\ token_file' = file
    /\ cvat_url' = None
    /\ success' = FALSE
    /\ attempt' = 0
    /\ auth_response' = None
    /\ prompts' = <<>>
    /\ auth_pc' = IF loop_continues(FALSE, 0) THEN "url" ELSE "exited"
    /\ UNCHANGED other_than_authenticator

\* one round of the URL loop; when the loop ends, exit(0) or the set-up of the
\* credentials loop
PromptURL ==
    /\ auth_pc = "url"
    /\ \E entered \in EnteredURLs :
        LET result == urlparse(entered)
            accepted == result.scheme # "" /\ result.netloc # ""
        IN  /\ cvat_url' = Str(entered)
            /\ prompts' = Append(prompts, [prompt |-> "url", entered |-> entered])
            /\ IF IsRaise(result)
               THEN /\ auth_pc' = "raised"
                    /\ UNCHANGED <<success, attempt>>
               ELSE IF loop_continues(accepted, attempt + 1)
               THEN /\ auth_pc' = "url"
                    /\ success' = accepted
                    /\ attempt' = attempt + 1
               ELSE IF ~accepted
               THEN /\ auth_pc' = "exited"
                    /\ success' = accepted
                    /\ attempt' = attempt + 1
               ELSE /\ auth_pc' = IF loop_continues(FALSE, 0) THEN "credentials" ELSE "exited"
                    /\ success' = FALSE
                    /\ attempt' = 0
    /\ UNCHANGED <<auth_call, auth_response, token_file>>
    /\ UNCHANGED other_than_authenticator

\* one round of the credentials loop; when the loop ends, exit(0) or the token of
\* the response is written to ~/.cvatauth
PromptCredentials ==
    /\ auth_pc = "credentials"
    /\ \E answer \in LoginAnswers :
        LET result == authenticate(cvat_url, answer)
        IN  /\ prompts' = Append(prompts, [prompt |-> "credentials", answer |-> answer])
            /\ IF IsRaise(result)
               THEN /\ auth_pc' = "raised"
                    /\ UNCHANGED <<success, attempt, auth_response, token_file>>
               ELSE /\ success' = result.success
                    /\ attempt' = attempt + 1
                    /\ auth_response' = result.response
                    /\ IF loop_continues(result.success, attempt + 1)
                       THEN /\ auth_pc' = "credentials"
                            /\ UNCHANGED token_file
                       ELSE IF ~result.success
                       THEN /\ auth_pc' = "exited"
                            /\ UNCHANGED token_file
                       ELSE IF result.response.body # "key"
                       THEN /\ auth_pc' = "raised"
                            /\ UNCHANGED token_file
                       ELSE /\ auth_pc' = "written"
                            /\ token_file' = Str("key")
    /\ UNCHANGED <<auth_call, cvat_url>>
    /\ UNCHANGED other_than_authenticator

NextAuthenticator == GenerateCvatToken \/ PromptURL \/ PromptCredentials

SpecAuthenticator == Init /\ [][NextAuthenticator]_vars /\ WF_vars(NextAuthenticator)

\* the prompts of one kind made so far
PromptsOf(kind_) == SelectSeq(prompts, LAMBDA p : p.prompt = kind_)

AcceptedURL(p) == ~IsRaise(urlparse(p.entered)) /\ urlparse(p.entered).scheme # "" /\ urlparse(p.entered).netloc # ""

Authenticated(p) == p.answer.kind = "Response" /\ p.answer.status_code = OK

Terminated == auth_pc \in {"exited", "written", "raised"}

-----------------------------------------------------------------------------
(* The decoders of cvpy.image.Image and of the module cvpy/image.py *)

\* how the NumPy of the build takes an index that is a list of slices: as the tuple
\* of the slices (NumPy before 1.23, with a FutureWarning) or as an array index,
\* which is an IndexError (NumPy 1.23 and later)
ListIndexOutcomes == {"tuple", "IndexError"}

\* Image.__reverse: idx is a list of slices and the result is a[idx]
Image_reverse(a, axis, list_index) ==
    IF list_index = "tuple" THEN reverse(a, axis) ELSE Raise("IndexError")

\* Image.get_image_array_from_row
Image_get_image_array_from_row(image_binary, dimension, resolution, myformat, channel_count, overflow_cast, list_index) ==
    LET num_cells == Product(resolution)
    IN  IF myformat = "32S" THEN
            unpack_branch(image_binary, resolution, "i", 4, "int32", overflow_cast)
        ELSE IF myformat = "32F" THEN
            unpack_branch(image_binary, resolution, "f", 4, "float32", overflow_cast)
        ELSE IF myformat = "64F" THEN
            unpack_branch(image_binary, resolution, "d", 8, "float64", overflow_cast)
        ELSE IF myformat = "64U" THEN
            unpack_branch(image_binary, resolution, "Q", 8, "uint64", overflow_cast)
        ELSE IF myformat = "16S" THEN
            unpack_branch(image_binary, resolution, "h", 2, "int16", overflow_cast)
        ELSE IF myformat = "16U" THEN
            unpack_branch(image_binary, resolution, "H", 2, "uint16", overflow_cast)
        ELSE IF is_packed_8U(myformat, channel_count) THEN
            IF resolution = <<>> THEN Raise("TypeError")
            ELSE IF Len(resolution) < 2 THEN Raise("IndexError")
            ELSE LET image_array ==
                         np_reshape(np_array_bytearray(Slice(image_binary, 0, num_cells * 3)),
                                    <<resolution[1], resolution[2], 3>>)
                 IN  IF IsRaise(image_array) THEN image_array
                     ELSE Image_reverse(image_array, 2, list_index)
        ELSE IF myformat = "8S" THEN
            unpack_branch(image_binary, resolution, "b", 1, "int8", overflow_cast)
        ELSE IF myformat = "8U" THEN
            unpack_branch(image_binary, resolution, "B", 1, "uint8", overflow_cast)
        ELSE
            IF Len(resolution) < 2 THEN Raise("IndexError")
            ELSE LET image_array ==
                         np_reshape(np_array_bytearray(image_binary),
                                    <<resolution[1], resolution[2], 3>>)
                 IN  IF IsRaise(image_array) THEN image_array
                     ELSE Image_reverse(image_array, 2, list_index)

\* Image.convert_wide_to_numpy
Image_convert_wide_to_numpy(wide_image) ==
    LET width == read_width(wide_image)
        height == read_height(wide_image)
        data_type == read_data_type(wide_image)
    IN  IF IsRaise(width) THEN width
        ELSE IF IsRaise(height) THEN height
        ELSE IF IsRaise(data_type) THEN data_type
        ELSE
        LET chosen == assign_channels_and_type(data_type.val)
        IN  IF chosen = <<>> THEN Raise("UnboundLocalError")
            ELSE
            LET num_channels == chosen[1]
                np_data_type == chosen[2]
                flat == np_frombuffer(Slice(wide_image, 4 * 8, Len(wide_image)), np_data_type)
            IN  IF IsRaise(flat) THEN flat
                ELSE np_reshape(flat, wide_shape(height.val, width.val, num_channels))

\* __reverse of cvpy/image.py: idx is a list of slices and the result is a[idx]
image_reverse(a, axis, list_index) ==
    IF list_index = "tuple" THEN reverse(a, axis) ELSE Raise("IndexError")

\* get_image_array_from_row of cvpy/image.py
image_get_image_array_from_row(image_binary, dimension, resolution, myformat, channel_count, overflow_cast, list_index) ==
    LET num_cells == Product(resolution)
    IN  IF myformat = "32S" THEN
            unpack_branch(image_binary, resolution, "i", 4, "int32", overflow_cast)
        ELSE IF myformat = "32F" THEN
            unpack_branch(image_binary, resolution, "f", 4, "float32", overflow_cast)
        ELSE IF myformat = "64F" THEN
            unpack_branch(image_binary, resolution, "d", 8, "float64", overflow_cast)
        ELSE IF myformat = "64U" THEN
            unpack_branch(image_binary, resolution, "Q", 8, "uint64", overflow_cast)
        ELSE IF myformat = "16S" THEN
            unpack_branch(image_binary, resolution, "h", 2, "int16", overflow_cast)
        ELSE IF myformat = "16U" THEN
            unpack_branch(image_binary, resolution, "H", 2, "uint16", overflow_cast)
        ELSE IF is_packed_8U(myformat, channel_count) THEN
            IF resolution = <<>> THEN Raise("TypeError")
            ELSE IF Len(resolution) < 2 THEN Raise("IndexError")
            ELSE LET image_array ==
                         np_reshape(np_array_bytearray(Slice(image_binary, 0, num_cells * 3)),
                                    <<resolution[1], resolution[2], 3>>)
                 IN  IF IsRaise(image_array) THEN image_array
                     ELSE image_reverse(image_array, 2, list_index)
        ELSE IF myformat = "8S" THEN
            unpack_branch(image_binary, resolution, "b", 1, "int8", overflow_cast)
        ELSE IF myformat = "8U" THEN
            unpack_branch(image_binary, resolution, "B", 1, "uint8", overflow_cast)
        ELSE
            IF Len(resolution) < 2 THEN Raise("IndexError")
            ELSE LET image_array ==
                         np_reshape(np_array_bytearray(image_binary),
                                    <<resolution[1], resolution[2], 3>>)
                 IN  IF IsRaise(image_array) THEN image_array
                     ELSE image_reverse(image_array, 2, list_index)

\* the three get_image_array_from_row are called with the same arguments
DecodeRow ==
    /\ decoders_pc = "idle"
    /\ \E myformat \in Tags, resolution \in Resolutions, channel_count \in ChannelCounts,
          list_index \in ListIndexOutcomes :
        \E image_binary \in RowBuffers(myformat), overflow_cast \in CastsFor(myformat) :
            LET dimension == Len(resolution)
            IN  /\ decoders_call' = [image_binary |-> image_binary, dimension |-> dimension,
                                     resolution |-> resolution, myformat |-> myformat,
                                     channel_count |-> channel_count,
                                     overflow_cast |-> overflow_cast,
                                     list_index |-> list_index]
                /\ decoders_rows' =
                    [ImageUtils |-> get_image_array_from_row(image_binary, dimension,
                                        resolution, myformat, channel_count, overflow_cast),
                     Image |-> Image_get_image_array_from_row(image_binary, dimension,
                                        resolution, myformat, channel_count, overflow_cast,
                                        list_index),
                     image |-> image_get_image_array_from_row(image_binary, dimension,
                                        resolution, myformat, channel_count, overflow_cast,
                                        list_index)]
    /\ decoders_wide' = None
    /\ decoders_pc' = "get_image_array_from_row"
    /\ UNCHANGED other_than_decoders

\* the two convert_wide_to_numpy are called with the same buffer
DecodeWide ==
    /\ decoders_pc = "idle"
    /\ \E w \in ReceivedWideImages :
        /\ Len(w) <= 32 + 8 * MaxCells
        /\ decoders_call' = [wide_image |-> w]
        /\ decoders_wide' = [ImageUtils |-> convert_wide_to_numpy(w),
                             Image |-> Image_convert_wide_to_numpy(w)]
    /\ decoders_rows' = None
    /\ decoders_pc' = "convert_wide_to_numpy"
    /\ UNCHANGED other_than_decoders

NextDecoders == DecodeRow \/ DecodeWide

SpecDecoders == Init /\ [][NextDecoders]_vars

\* C26: the three get_image_array_from_row all fail or all return equal arrays, on
\* the channel-reversing paths too, and the two convert_wide_to_numpy agree on every
\* buffer
C26_DecodersAgree ==
    /\ decoders_pc = "get_image_array_from_row" =>
        /\ IsRaise(decoders_rows.Image) = IsRaise(decoders_rows.ImageUtils)
        /\ IsRaise(decoders_rows.image) = IsRaise(decoders_rows.ImageUtils)
        /\ ~IsRaise(decoders_rows.ImageUtils) =>
            /\ decoders_rows.Image = decoders_rows.ImageUtils
            /\ decoders_rows.image = decoders_rows.ImageUtils
    /\ decoders_pc = "convert_wide_to_numpy" =>
        decoders_wide.Image = decoders_wide.ImageUtils

-----------------------------------------------------------------------------
\* the dimensions a caller may hand to the row decoder
MaxDimension == 3

\* C27: the outcome of get_image_array_from_row does not depend on its dimension
\* argument: every dimension gives the result, or the failure, of the call made, so
\* a dimension that differs from the length of resolution is not rejected
C27_DimensionIgnored ==
    pc = "get_image_array_from_row" =>
        \A dimension \in 0..MaxDimension :
            get_image_array_from_row(row_call.image_binary, dimension, row_call.resolution,
                                     row_call.myformat, row_call.channel_count,
                                     row_call.overflow_cast) = imageArray

C27_Witness ==
    /\ pc = "get_image_array_from_row"
    /\ row_call.dimension # Len(row_call.resolution)
    /\ row_call.resolution = <<1, 2>>
    /\ IsArray(imageArray)

-----------------------------------------------------------------------------
(* cvpy.base.ImageTable: assignments to the table and the column properties *)

MaxOperations == 2

\* the table setter: the lookup is taken anew from the table; the column attributes
\* are left as they are
set_table(self, info) ==
    IF info = None
    THEN [self EXCEPT !.table = None, !.lookup = None]
    ELSE [self EXCEPT !.table = [kind |-> "CASTable", info |-> info.info],
                      !.lookup = [kind |-> "dict", items |-> column_dtype_lookup(info.info)]]

\* validate_set_column(column, column_name, default_column_name, valid_column_datatypes)
\* on the object as it is: the object afterwards and the exception, if any
set_column_property(self, column, column_name) ==
    LET k == CHOOSE i \in 1..Len(ColumnAttributes) : ColumnAttributes[i] = column
        default_column_name == DefaultColumn(column)
        given == nonempty(column_name)
    IN  IF self.table = None
        THEN [self |-> [self EXCEPT !.columns[k] =
                            IF given THEN column_name ELSE Str(default_column_name)],
              raised |-> None]
        ELSE
        LET lookup == self.lookup.items
            resolved ==
                IF given THEN column_name
                ELSE IF lower(default_column_name) \in DOMAIN lookup
                     THEN Str(default_column_name)
                     ELSE column_name
        IN  IF given /\ lower(column_name.val) \notin DOMAIN lookup
            THEN [self |-> self, raised |-> Raise("Exception")]
            ELSE [self |-> [self EXCEPT !.columns[k] = resolved],
                  raised |-> IF /\ nonempty(resolved)
                                /\ lookup[lower(resolved.val)] \notin ValidColumnDatatypes(column)
                             THEN Raise("Exception") ELSE None]

\* ImageTable.__init__: the table setter, then the nine column setters in order; the
\* first exception leaves __init__ and no object is made
RECURSIVE init_columns(_, _, _)
init_columns(self, names, k) ==
    IF k > Len(ColumnAttributes) THEN self
    ELSE LET step == set_column_property(self, ColumnAttributes[k], names[ColumnAttributes[k]])
         IN  IF step.raised # None THEN step.raised
             ELSE init_columns(step.self, names, k + 1)

ImageTable_init(info, names) ==
    init_columns(set_table([kind |-> "ImageTable", table |-> None, lookup |-> None,
                            columns |-> [k \in 1..Len(ColumnAttributes) |-> None]], info),
                 names, 1)

\* the tables and the names of the calls
AssignedTables ==
    {None} \cup {[kind |-> "CASTable", info |-> MaskTable(naming, decoded_)] :
                    naming \in {"default", "given"}, decoded_ \in BOOLEAN}

AssignedAttributes == {"image", "dimension", "label"}

AssignedNames(column) == {None, Str(""), Str(DefaultColumn(column)), Str(GivenName(column))}

\* ImageTable(table, <column>=<name>)
ConstructAssigned ==
    /\ table_object = None
    /\ \E info \in AssignedTables, column \in AssignedAttributes :
        \E name \in AssignedNames(column) :
            table_object' = ImageTable_init(info, [a \in AttributeSet |->
                                                    IF a = column THEN name ELSE None])
    /\ table_raised' = None
    /\ operations' = 0
    /\ UNCHANGED other_than_assigned

\* image_table.table = table
AssignTable ==
    /\ table_object.kind = "ImageTable"
    /\ operations < MaxOperations
    /\ \E info \in AssignedTables : table_object' = set_table(table_object, info)
    /\ table_raised' = None
    /\ operations' = operations + 1
    /\ UNCHANGED other_than_assigned

\* image_table.<column> = name
AssignColumn ==
    /\ table_object.kind = "ImageTable"
    /\ operations < MaxOperations
    /\ \E column \in AssignedAttributes :
        \E name \in AssignedNames(column) :
            LET step == set_column_property(table_object, column, name)
            IN  /\ table_object' = step.self
                /\ table_raised' = step.raised
    /\ operations' = operations + 1
    /\ UNCHANGED other_than_assigned

NextAssigned == ConstructAssigned \/ AssignTable \/ AssignColumn

SpecAssigned == Init /\ [][NextAssigned]_vars

\* C28: whenever the table of an ImageTable is set, every column attribute that is
\* not None names a column of that table, whatever constructions and assignments to
\* the table and the column properties were made
C28_ColumnsPresent ==
    (table_object.kind = "ImageTable" /\ table_object.table # None) =>
        \A k \in 1..Len(ColumnAttributes) :
            table_object.columns[k] # None =>
                lower(table_object.columns[k].val) \in DOMAIN table_object.lookup.items

-----------------------------------------------------------------------------
(* cvpy.annotation.base.Task: as_dict and from_dict *)

\* ImageTable.as_dict: every instance variable but _column_dtype_lookup and
\* _connection, under its name without the leading underscore
ImageTable_as_dict(self) ==
    Dict([key \in AttributeSet \cup {"table"} |->
            IF key = "table" THEN self.table ELSE Attribute(self, key)])

\* del image_table_dict['table']
del(dict, key) == Dict([k \in DOMAIN dict.items \ {key} |-> dict.items[k]])

\* Task.as_dict: an ImageTable goes in as its dictionary without 'table', a Project
\* is left out, every other instance variable goes in as it is
Task_as_dict(self) ==
    LET kept == {"task_id", "image_table", "start_image_id", "image_table_name",
                 "end_image_id"} \cup (IF self._project = None THEN {"project"} ELSE {})
    IN  Dict([key \in kept |->
            CASE key = "task_id" -> self._task_id
              [] key = "project" -> self._project
              [] key = "image_table" ->
                    IF self._image_table.kind = "ImageTable"
                    THEN del(ImageTable_as_dict(self._image_table), "table")
                    ELSE self._image_table
              [] key = "start_image_id" -> self._start_image_id
              [] key = "image_table_name" -> self._image_table_name
              [] key = "end_image_id" -> self._end_image_id])

\* Task.from_dict
Task_from_dict(object_dict) ==
    LET task == Task(None, None)
        image_table_json == get(object_dict, "image_table")
        image_table_ == ImageTableWithoutTable(
            [column \in AttributeSet |-> get(image_table_json, column)])
    IN  [task EXCEPT !._task_id = get(object_dict, "task_id"),
                     !._image_table_name = get(object_dict, "image_table_name"),
                     !._image_table = image_table_,
                     !._start_image_id = get(object_dict, "start_image_id"),
                     !._end_image_id = get(object_dict, "end_image_id")]

\* a task is made on an image table of the session and, for a task of a CVAT
\* project, given the id the server answered
ConstructTask ==
    /\ task_before = None
    /\ \E naming \in {"default", "given"}, decoded_ \in BOOLEAN, rows \in 1..2,
          project_ \in {None, [kind |-> "CVATProject", self |-> "project"]},
          task_id \in {None, PyInt(1), PyInt(2)} :
        LET image_table_ == ImageTableOn(CASTable("images", rows),
                                         MaskTable(naming, decoded_),
                                         MaskNames(naming, decoded_))
        IN  task_before' = [Task(image_table_, project_) EXCEPT !._task_id = task_id]
    /\ UNCHANGED <<task_dict, task_after>>
    /\ UNCHANGED other_than_roundtrip

\* t.as_dict()
AsDict ==
    /\ task_before # None
    /\ task_dict = None
    /\ task_dict' = Task_as_dict(task_before)
    /\ UNCHANGED <<task_before, task_after>>
    /\ UNCHANGED other_than_roundtrip

\* Task.from_dict(d) or CVATTask.from_dict(d)
FromDict ==
    /\ task_dict # None
    /\ task_after = None
    /\ \E class \in {"Task", "CVATTask"} :
        task_after' = IF class = "Task" THEN Task_from_dict(task_dict)
                      ELSE CVATTask_from_dict(task_dict)
    /\ UNCHANGED <<task_before, task_dict>>
    /\ UNCHANGED other_than_roundtrip

NextRoundTrip == ConstructTask \/ AsDict \/ FromDict

SpecRoundTrip == Init /\ [][NextRoundTrip]_vars

\* C29: from_dict(t.as_dict()) has the task_id, image_table_name, start_image_id and
\* end_image_id of t and an image table with the nine column attributes of t's image
\* table: an attribute that is None stays None and has_decoded_images() answers the same
C29_RoundTrip ==
    task_after # None =>
        /\ task_after._task_id = task_before._task_id
        /\ task_after._image_table_name = task_before._image_table_name
        /\ task_after._start_image_id = task_before._start_image_id
        /\ task_after._end_image_id = task_before._end_image_id
        /\ task_after._image_table.columns = task_before._image_table.columns
        /\ has_decoded_images(task_after._image_table)
            = has_decoded_images(task_before._image_table)

-----------------------------------------------------------------------------
(* cvpy.base.CASThreadTunerResults: the properties *)

MaxAssignments == 2

ResultsProperties ==
    {"cas_server_mode", "controller_thread_range", "worker_thread_range",
     "objective_measure", "controller_optimal_thread_count", "worker_optimal_thread_count",
     "mean_exec_times", "median_exec_times", "minimum_exec_times", "maximum_exec_times",
     "stdev_exec_times"}

\* the instance attribute the getter of a property returns
GetterAttribute(name) ==
    CASE name = "cas_server_mode" -> "_cas_server_mode"
      [] name = "controller_thread_range" -> "_controller_thread_range"
      [] name = "worker_thread_range" -> "_worker_thread_range"
      [] name = "objective_measure" -> "_objective_measure"
      [] name = "controller_optimal_thread_count" -> "_controller_optimal_thread_count"
      [] name = "worker_optimal_thread_count" -> "_worker_optimal_thread_count"
      [] name = "mean_exec_times" -> "_mean_exec_times"
      [] name = "median_exec_times" -> "_median_exec_times"
      [] name = "minimum_exec_times" -> "_minimum_exec_times"
      [] name = "maximum_exec_times" -> "_maximum_exec_times"
      [] name = "stdev_exec_times" -> "_stdev_exec_times"

\* the instance attribute the setter of a property assigns
SetterAttribute(name) ==
    CASE name = "cas_server_mode" -> "_cas_server_mode"
      [] name = "controller_thread_range" -> "_controller_thread_range"
      [] name = "worker_thread_range" -> "_worker_thread_range"
      [] name = "objective_measure" -> "_objective_measure"
      [] name = "controller_optimal_thread_count" -> "_controller_optimal_thread_count"
      [] name = "worker_optimal_thread_count" -> "_worker_optimal_thread_count"
      [] name = "mean_exec_times" -> "_mean_exec_times"
      [] name = "median_exec_times" -> "_median_exec_times"
      [] name = "minimum_exec_times" -> "_minimum_exec_times"
      [] name = "maximum_exec_times" -> "_maximum_exec_times"
      [] name = "stdev_exec_times" -> "_sd_exec_times"

\* results.<name>
get_property(self, name) == self[GetterAttribute(name)]

\* results.<name> = value
set_property(self, name, value) ==
    [k \in DOMAIN self \cup {SetterAttribute(name)} |->
        IF k = SetterAttribute(name) THEN value ELSE self[k]]

\* the values assigned
PropertyValues == {None, PyInt(1), PyInt(2)}

\* CASThreadTunerResults(), or CASThreadTunerResults(v, ..., v)
ConstructResults ==
    /\ results_object = None
    /\ \E value \in PropertyValues :
        results_object' = CASThreadTunerResults(
            [cas_server_mode |-> value, controller_thread_range |-> value,
             worker_thread_range |-> value, objective_measure |-> value,
             controller_optimal_thread_count |-> value,
             worker_optimal_thread_count |-> value, mean_exec_times |-> value,
             median_exec_times |-> value, minimum_exec_times |-> value,
             maximum_exec_times |-> value, stdev_exec_times |-> value])
    /\ assignments' = 0
    /\ UNCHANGED <<property_call, property_before, property_read>>
    /\ UNCHANGED other_than_results

\* the eleven properties are read, results.<name> = value is executed, and the
\* eleven properties are read again
AssignProperty ==
    /\ results_object # None
    /\ assignments < MaxAssignments
    /\ \E name \in ResultsProperties, value \in PropertyValues :
        /\ property_call' = [name |-> name, value |-> value]
        /\ results_object' = set_property(results_object, name, value)
    /\ property_before' = [p \in ResultsProperties |-> get_property(results_object, p)]
    /\ property_read' = [p \in ResultsProperties |-> get_property(results_object', p)]
    /\ assignments' = assignments + 1
    /\ UNCHANGED other_than_results

NextResults == ConstructResults \/ AssignProperty

SpecResults == Init /\ [][NextResults]_vars

\* C30: after results.<name> = v the property <name> reads v and each of the other
\* ten properties reads what it read before, for each of the eleven properties
C30_SetThenGet ==
    property_call # None =>
        /\ property_read[property_call.name] = property_call.value
        /\ \A p \in ResultsProperties \ {property_call.name} :
            property_read[p] = property_before[p]

====
